---- MODULE Spec2Model ----
(***************************************************************************)
(* Ordering and queue-consistency engine of the Divebar Jukebox backend:   *)
(* CollectionService (album membership, sort_order, display_number,        *)
(* sections of a collection), QueueService (per-collection playback queue) *)
(* and PlaybackService (the playback state record of a collection, the     *)
(* transition to the next track).                                          *)
(*                                                                         *)
(* Tables are sets of rows.  Every service method is an operator from the  *)
(* tables before the call to the tables after its commit (or to the set of *)
(* possible outcomes where the database is free to pick among rows that    *)
(* tie in an ORDER BY).  The session is created with autoflush=False       *)
(* (database.py:20): a SELECT issued by a method sees the rows as last     *)
(* flushed, not the attribute changes and deletions still pending in the   *)
(* session; the operators keep the two apart.                              *)
(*                                                                         *)
(* Every request is served in a session of its own (database.py:26-37) on  *)
(* a thread of the pool.  The session actions (variable calls) split the   *)
(* methods at their reads and commits, so that the calls of two sessions   *)
(* interleave; a flush and the commit after it are one step (the write     *)
(* lock of the database is held from the one to the other).                *)
(*                                                                         *)
(* The artist and the title of an album are their ranks in the ORDER BY of *)
(* get_all_albums.                                                         *)
(*                                                                         *)
(* Not modelled: queued_at / played_at / created_at timestamps,            *)
(* enabled_track_ids and the replaygain metadata of a track, which no      *)
(* decision below reads.                                                   *)
(***************************************************************************)
EXTENDS Integers, Sequences, FiniteSets, TLC

VARIABLES
    collection_albums,  \* table collection_albums: set of membership rows
    queue,              \* table queue: set of queue rows
    playback_state,     \* table playback_state: set of rows, at most one per collection
    collections,        \* table collections: set of rows, one per collection
    tracks,             \* table tracks: set of track rows
    albums,             \* table albums: set of album rows
    request,            \* body of the PUT .../sections request being served, if any
    calls,              \* the call each database session is in the middle of
    last                \* the last call made and what it returned

vars == <<collection_albums, queue, playback_state, collections, tracks, albums, request,
          calls, last>>

(***************************************************************************)
(* Bounds of the model.                                                    *)
(***************************************************************************)
MaxQueueRows == 2       \* rows of table queue (all statuses)
MaxPosition == 3        \* enqueue is not called once it would assign a larger position
MaxAlbumRows == 2       \* rows of table collection_albums
MaxSortOrder == 2       \* caller-supplied sort_order values are 0..MaxSortOrder
MaxListLen == 2         \* length of the id lists given to enqueueMany / reorder
MaxAlbumListLen == 2    \* length of the id lists given to setFullOrder
MaxPositionMs == 1      \* updatePosition is called with 0..MaxPositionMs
MaxSlot == 3            \* start_slot / end_slot of a section are absent or 1..MaxSlot

Collections == {"c1", "c2"}
Tracks == {"t1", "t2"}
Albums == {"a1", "a2", "a3"}
QueueIds == 1..MaxQueueRows
MembershipIds == 1..MaxAlbumRows
SortOrders == 0..MaxSortOrder

None == "none"
NoId == 0
NoSort == -1

\* The id of the virtual "all" collection (main.py:38).
AllCollectionId == "00000000-0000-0000-0000-000000000000"

\* Stands for start_slot / end_slot = None in a section.
NoSlot == -1

\* Stands for sections = None, in a request and in a collection row (a stored
\* list has at least MinSections entries, a request with [] is sent on as None).
NoSections == <<>>

PENDING == "pending"
PLAYING == "playing"
PLAYED == "played"
QueueStatus == {PENDING, PLAYING, PLAYED}

(***************************************************************************)
(* Helpers.                                                                *)
(***************************************************************************)
Range(s) == {s[i] : i \in DOMAIN s}

SetMax(S) == CHOOSE x \in S : \A y \in S : y <= x

SeqsUpTo(S, n) == UNION {[1..k -> S] : k \in 0..n}

IndexOf(s, x) == CHOOSE i \in DOMAIN s : s[i] = x

\* All the ways of listing the finite set S as a sequence without repetition.
Listings(S) ==
    {f \in [1..Cardinality(S) -> S] : \A i, j \in DOMAIN f : f[i] = f[j] => i = j}

(***************************************************************************)
(* QueueService.  A queue row is                                           *)
(*   [id, collection_id, track_id, position, status].                      *)
(***************************************************************************)
Active == {PENDING, PLAYING}

\* The pending and playing rows of every collection.
ActiveItems_AnyCollection(Q, c) == {q \in Q : q.status \in Active}

\* filter(collection_id == c, status.in_([PENDING, PLAYING]))
ActiveItems(Q, c) == {q \in Q : q.collection_id = c /\ q.status \in Active}

\* Queue.id default: a fresh uuid4, used for identity only.
NewQueueId(Q) ==
    CHOOSE i \in 1..(Cardinality(Q) + 1) : \A q \in Q : q.id # i

\* The results ORDER BY position may return for the rows S: every listing
\* in non-decreasing position (rows with equal position come in any order).
OrderByPosition(S) ==
    {f \in Listings(S) : \A i, j \in DOMAIN f : i < j => f[i].position <= f[j].position}

\* add_to_queue without the lookup of an existing pending/playing row.
add_to_queue_NoDedup(Q, c, t) ==
    LET active == ActiveItems(Q, c)
        max_position == IF active = {} THEN 0 ELSE SetMax({q.position : q \in active})
        queue_item == [id |-> NewQueueId(Q), collection_id |-> c, track_id |-> t,
                       position |-> max_position + 1, status |-> PENDING]
    IN  [item |-> queue_item.id, queue |-> Q \cup {queue_item}]

\* add_to_queue looking for an existing row among the pending rows only.
add_to_queue_PendingOnly(Q, c, t) ==
    LET active == ActiveItems(Q, c)
        existing == {q \in active : q.track_id = t /\ q.status = PENDING}
        max_position == IF active = {} THEN 0 ELSE SetMax({q.position : q \in active})
        queue_item == [id |-> NewQueueId(Q), collection_id |-> c, track_id |-> t,
                       position |-> max_position + 1, status |-> PENDING]
    IN  IF existing # {}
        THEN [item |-> NoId, queue |-> Q]
        ELSE [item |-> queue_item.id, queue |-> Q \cup {queue_item}]

\* Returns the id of the inserted row (NoId for a duplicate) and the table.
add_to_queue(Q, c, t) ==
    LET active == ActiveItems(Q, c)
        existing == {q \in active : q.track_id = t}
        max_position == IF active = {} THEN 0 ELSE SetMax({q.position : q \in active})
        queue_item == [id |-> NewQueueId(Q), collection_id |-> c, track_id |-> t,
                       position |-> max_position + 1, status |-> PENDING]
    IN  IF existing # {}
        THEN [item |-> NoId, queue |-> Q]
        ELSE [item |-> queue_item.id, queue |-> Q \cup {queue_item}]

\* add_album_to_queue counting every track of the list.
RECURSIVE add_album_to_queue_CountAll(_, _, _)
add_album_to_queue_CountAll(Q, c, track_ids) ==
    IF track_ids = <<>>
    THEN [count |-> 0, queue |-> Q]
    ELSE LET r == add_to_queue(Q, c, Head(track_ids))
             rest == add_album_to_queue_CountAll(r.queue, c, Tail(track_ids))
         IN  [count |-> 1 + rest.count, queue |-> rest.queue]

RECURSIVE add_album_to_queue(_, _, _)
add_album_to_queue(Q, c, track_ids) ==
    IF track_ids = <<>>
    THEN [count |-> 0, queue |-> Q]
    ELSE LET r == add_to_queue(Q, c, Head(track_ids))
             rest == add_album_to_queue(r.queue, c, Tail(track_ids))
         IN  [count |-> (IF r.item # NoId THEN 1 ELSE 0) + rest.count,
              queue |-> rest.queue]

\* get_next_track without the ORDER BY: any pending row of the collection.
get_next_track_Unordered(Q, c) == {q \in Q : q.collection_id = c /\ q.status = PENDING}

\* The rows .order_by(position).first() may return: empty when no row is pending.
get_next_track(Q, c) ==
    LET pending == {q \in Q : q.collection_id = c /\ q.status = PENDING}
    IN  {q \in pending : \A p \in pending : q.position <= p.position}

SetStatus(Q, queue_id, s) ==
    {IF q.id = queue_id THEN [q EXCEPT !.status = s] ELSE q : q \in Q}

mark_playing(Q, queue_id) == SetStatus(Q, queue_id, PLAYING)

mark_played(Q, queue_id) == SetStatus(Q, queue_id, PLAYED)

\* _reorder_queue run against the rows `visible` to its SELECT: the possible
\* assignments id -> new position.
_reorder_queue(visible, c) ==
    {[id \in {q.id : q \in ActiveItems(visible, c)} |->
        CHOOSE i \in DOMAIN f : f[i].id = id] : f \in OrderByPosition(ActiveItems(visible, c))}

ApplyPositions(Q, pos) ==
    {IF q.id \in DOMAIN pos THEN [q EXCEPT !.position = pos[q.id]] ELSE q : q \in Q}

\* db.delete() only marks the row; with autoflush off the SELECT of
\* _reorder_queue still returns it, and it is numbered with the others.  The
\* commit then deletes it and writes the positions of the rest.
remove_from_queue(Q, queue_id) ==
    LET found == {q \in Q : q.id = queue_id}
    IN  IF found = {}
        THEN {[ok |-> FALSE, queue |-> Q]}
        ELSE LET queue_item == CHOOSE q \in found : TRUE
             IN  {[ok |-> TRUE,
                   queue |-> {q \in ApplyPositions(Q, pos) : q.id # queue_id}] :
                     pos \in _reorder_queue(Q, queue_item.collection_id)}

clear_queue(Q, c, clear_played) ==
    LET hit == {q \in Q : q.collection_id = c /\ (clear_played \/ q.status \in Active)}
    IN  [count |-> Cardinality(hit), queue |-> Q \ hit]

\* reorder_queue writing the positions before it compares the counts.
reorder_queue_WriteFirst(Q, c, ordered_queue_ids) ==
    LET items == {q \in Q : /\ q.collection_id = c
                            /\ q.id \in Range(ordered_queue_ids)
                            /\ q.status \in Active}
    IN  [ok |-> Cardinality(items) = Len(ordered_queue_ids),
         queue |-> {IF q \in items
                    THEN [q EXCEPT !.position = IndexOf(ordered_queue_ids, q.id)]
                    ELSE q : q \in Q}]

\* reorder_queue without the status filter of its query.
reorder_queue_AnyStatus(Q, c, ordered_queue_ids) ==
    LET items == {q \in Q : /\ q.collection_id = c
                            /\ q.id \in Range(ordered_queue_ids)}
    IN  IF ordered_queue_ids = <<>>
        THEN [ok |-> TRUE, queue |-> Q]
        ELSE IF Cardinality(items) # Len(ordered_queue_ids)
        THEN [ok |-> FALSE, queue |-> Q]
        ELSE [ok |-> TRUE,
              queue |-> {IF q \in items
                         THEN [q EXCEPT !.position = IndexOf(ordered_queue_ids, q.id)]
                         ELSE q : q \in Q}]

reorder_queue(Q, c, ordered_queue_ids) ==
    LET items == {q \in Q : /\ q.collection_id = c
                            /\ q.id \in Range(ordered_queue_ids)
                            /\ q.status \in Active}
    IN  IF ordered_queue_ids = <<>>
        THEN [ok |-> TRUE, queue |-> Q]
        ELSE IF Cardinality(items) # Len(ordered_queue_ids)
        THEN [ok |-> FALSE, queue |-> Q]
        ELSE [ok |-> TRUE,
              queue |-> {IF q \in items
                         THEN [q EXCEPT !.position = IndexOf(ordered_queue_ids, q.id)]
                         ELSE q : q \in Q}]

(***************************************************************************)
(* TrackService.  A track row is                                           *)
(*   [id, album_id, disc_number, track_number, enabled].                   *)
(***************************************************************************)
get_track_by_id(T, track_id) == {t \in T : t.id = track_id}

\* The results ORDER BY disc_number, track_number may return for the rows S.
OrderByDiscTrack(S) ==
    {f \in Listings(S) : \A i, j \in DOMAIN f : i < j =>
        \/ f[i].disc_number < f[j].disc_number
        \/ /\ f[i].disc_number = f[j].disc_number
           /\ f[i].track_number <= f[j].track_number}

\* With enabled_only the query is filtered on Track.enabled and
\* Track.archived.  The class Track (models/track.py:11-34) declares the
\* column enabled and no attribute archived: evaluating Track.archived
\* raises AttributeError before any query is made.
get_tracks_by_album(T, album_id, enabled_only) ==
    IF enabled_only
    THEN [raised |-> TRUE, album_tracks |-> {}]
    ELSE [raised |-> FALSE,
          album_tracks |-> OrderByDiscTrack({t \in T : t.album_id = album_id})]

(***************************************************************************)
(* PlaybackService.  A playback_state row is                               *)
(*   [collection_id, current_track_id, is_playing, current_position_ms,    *)
(*    volume].                                                             *)
(***************************************************************************)
DefaultVolume == 70

get_playback_state(P, c) == {s \in P : s.collection_id = c}

get_or_create_playback_state(P, c) ==
    IF get_playback_state(P, c) # {}
    THEN P
    ELSE P \cup {[collection_id |-> c, current_track_id |-> None, is_playing |-> FALSE,
                  current_position_ms |-> 0, volume |-> DefaultVolume]}

StateOf(P, c) == CHOOSE s \in get_playback_state(P, c) : TRUE

PutState(P, c, s) == (P \ get_playback_state(P, c)) \cup {s}

\* play leaving the stored position when it pulls the next item.
play_KeepPosition(Q, P, c) ==
    LET P1 == get_or_create_playback_state(P, c)
        state == StateOf(P1, c)
    IN  IF state.current_track_id = None
        THEN IF get_next_track(Q, c) = {}
             THEN {[queue |-> Q, playback_state |-> P1]}
             ELSE {[queue |-> mark_playing(Q, next_queue.id),
                    playback_state |->
                        PutState(P1, c, [state EXCEPT !.current_track_id = next_queue.track_id,
                                                      !.is_playing = TRUE])] :
                      next_queue \in get_next_track(Q, c)}
        ELSE {[queue |-> Q,
               playback_state |-> PutState(P1, c, [state EXCEPT !.is_playing = TRUE])]}

\* play without the early return for an empty queue.
play_AlwaysPlaying(Q, P, c) ==
    LET P1 == get_or_create_playback_state(P, c)
        state == StateOf(P1, c)
    IN  IF state.current_track_id = None
        THEN IF get_next_track(Q, c) = {}
             THEN {[queue |-> Q,
                    playback_state |-> PutState(P1, c, [state EXCEPT !.is_playing = TRUE])]}
             ELSE {[queue |-> mark_playing(Q, next_queue.id),
                    playback_state |->
                        PutState(P1, c, [state EXCEPT !.current_track_id = next_queue.track_id,
                                                      !.current_position_ms = 0,
                                                      !.is_playing = TRUE])] :
                      next_queue \in get_next_track(Q, c)}
        ELSE {[queue |-> Q,
               playback_state |-> PutState(P1, c, [state EXCEPT !.is_playing = TRUE])]}

\* The possible outcomes [queue, playback_state] of play(c).
play(Q, P, c) ==
    LET P1 == get_or_create_playback_state(P, c)
        state == StateOf(P1, c)
    IN  IF state.current_track_id = None
        THEN IF get_next_track(Q, c) = {}
             THEN {[queue |-> Q, playback_state |-> P1]}
             ELSE {[queue |-> mark_playing(Q, next_queue.id),
                    playback_state |->
                        PutState(P1, c, [state EXCEPT !.current_track_id = next_queue.track_id,
                                                      !.current_position_ms = 0,
                                                      !.is_playing = TRUE])] :
                      next_queue \in get_next_track(Q, c)}
        ELSE {[queue |-> Q,
               playback_state |-> PutState(P1, c, [state EXCEPT !.is_playing = TRUE])]}

pause(P, c) ==
    IF get_playback_state(P, c) = {}
    THEN P
    ELSE PutState(P, c, [StateOf(P, c) EXCEPT !.is_playing = FALSE])

\* stop leaving is_playing as it is.
stop_KeepPlaying(P, c) ==
    IF get_playback_state(P, c) = {}
    THEN P
    ELSE PutState(P, c, [StateOf(P, c) EXCEPT !.current_position_ms = 0,
                                              !.current_track_id = None])

stop(P, c) ==
    IF get_playback_state(P, c) = {}
    THEN P
    ELSE PutState(P, c, [StateOf(P, c) EXCEPT !.is_playing = FALSE,
                                              !.current_position_ms = 0,
                                              !.current_track_id = None])

\* SkipToNext leaving is_playing as it is when no item is pending.
SkipToNext_KeepPlaying(Q1, P1, c) ==
    LET state == StateOf(P1, c)
    IN  IF get_next_track(Q1, c) = {}
        THEN {[queue |-> Q1,
               playback_state |-> PutState(P1, c, [state EXCEPT !.current_track_id = None,
                                                                !.current_position_ms = 0])]}
        ELSE {[queue |-> mark_playing(Q1, next_queue.id),
               playback_state |->
                   PutState(P1, c, [state EXCEPT !.current_track_id = next_queue.track_id,
                                                 !.current_position_ms = 0])] :
                 next_queue \in get_next_track(Q1, c)}

\* The second half of skip, run on the queue after the current item was
\* marked played: pull the next pending item or clear the state.
SkipToNext(Q1, P1, c) ==
    LET state == StateOf(P1, c)
    IN  IF get_next_track(Q1, c) = {}
        THEN {[queue |-> Q1,
               playback_state |-> PutState(P1, c, [state EXCEPT !.current_track_id = None,
                                                                !.current_position_ms = 0,
                                                                !.is_playing = FALSE])]}
        ELSE {[queue |-> mark_playing(Q1, next_queue.id),
               playback_state |->
                   PutState(P1, c, [state EXCEPT !.current_track_id = next_queue.track_id,
                                                 !.current_position_ms = 0])] :
                 next_queue \in get_next_track(Q1, c)}

\* skip without marking the current item played.
skip_NoMarkPlayed(Q, P, c) ==
    SkipToNext(Q, get_or_create_playback_state(P, c), c)

\* The possible outcomes [queue, playback_state] of skip(c).
skip(Q, P, c) ==
    LET P1 == get_or_create_playback_state(P, c)
        state == StateOf(P1, c)
        current == {q \in Q : /\ q.collection_id = c
                              /\ q.track_id = state.current_track_id
                              /\ q.status = PLAYING}
    IN  IF state.current_track_id # None /\ current # {}
        THEN UNION {SkipToNext(mark_played(Q, current_queue.id), P1, c) :
                        current_queue \in current}
        ELSE SkipToNext(Q, P1, c)

update_position(P, c, position_ms) ==
    IF get_playback_state(P, c) = {}
    THEN P
    ELSE PutState(P, c, [StateOf(P, c) EXCEPT !.current_position_ms = position_ms])

Min(a, b) == IF a <= b THEN a ELSE b

Max(a, b) == IF a >= b THEN a ELSE b

set_volume_NoClamp(P, c, volume) ==
    LET P1 == get_or_create_playback_state(P, c)
    IN  PutState(P1, c, [StateOf(P1, c) EXCEPT !.volume = volume])

set_volume(P, c, volume) ==
    LET P1 == get_or_create_playback_state(P, c)
    IN  PutState(P1, c, [StateOf(P1, c) EXCEPT !.volume = Max(0, Min(100, volume))])

\* What get_next_transition does once the next queue row is known: the
\* outcomes [raised, next_track_id, apply_crossfade] (the replaygain value
\* of the tuple is read from the track's metadata and not modelled).
Transition(P, T, c, next_queue) ==
    LET state == get_playback_state(P, c)
        next_track == get_track_by_id(T, next_queue.track_id)
        Returns(apply_crossfade) ==
            {[raised |-> FALSE, next_track_id |-> next_queue.track_id,
              apply_crossfade |-> apply_crossfade]}
    IN  IF next_track = {}
        THEN Returns(TRUE)
        ELSE IF state = {} \/ StateOf(P, c).current_track_id = None
        THEN Returns(TRUE)
        ELSE LET current_track == get_track_by_id(T, StateOf(P, c).current_track_id)
             IN  IF current_track = {}
                 THEN Returns(TRUE)
                 ELSE LET current == CHOOSE t \in current_track : TRUE
                          next == CHOOSE t \in next_track : TRUE
                          r == get_tracks_by_album(T, current.album_id, TRUE)
                      IN  IF current.album_id # next.album_id
                          THEN Returns(TRUE)
                          ELSE IF r.raised
                          THEN {[raised |-> TRUE, next_track_id |-> None,
                                 apply_crossfade |-> TRUE]}
                          ELSE UNION {
                              IF \A i \in DOMAIN album_tracks : album_tracks[i].id # current.id
                              THEN Returns(TRUE)
                              ELSE LET current_index ==
                                           CHOOSE i \in DOMAIN album_tracks :
                                               album_tracks[i].id = current.id
                                       next_index == current_index + 1
                                   IN  IF next_index > Len(album_tracks)
                                       THEN Returns(TRUE)
                                       ELSE IF album_tracks[next_index].id # next.id
                                       THEN Returns(TRUE)
                                       ELSE Returns(FALSE) :
                                  album_tracks \in r.album_tracks}

\* The possible outcomes of get_next_transition(c).
get_next_transition(Q, P, T, c) ==
    IF get_next_track(Q, c) = {}
    THEN {[raised |-> FALSE, next_track_id |-> None, apply_crossfade |-> FALSE]}
    ELSE UNION {Transition(P, T, c, next_queue) : next_queue \in get_next_track(Q, c)}

(***************************************************************************)
(* CollectionService.  A collection_albums row is                          *)
(*   [id, collection_id, album_id, sort_order, display_number].            *)
(* CollectionAlbum.id is a uuid4 string: which of two rows has the smaller *)
(* id does not follow from the order of their creation.                    *)
(***************************************************************************)
Members(M, c) == {m \in M : m.collection_id = c}

FindMembership(M, c, a) == {m \in M : m.collection_id = c /\ m.album_id = a}

\* ORDER BY sort_order, id
OrderBySortOrder(S) ==
    CHOOSE f \in Listings(S) :
        \A i, j \in DOMAIN f : i < j =>
            \/ f[i].sort_order < f[j].sort_order
            \/ f[i].sort_order = f[j].sort_order /\ f[i].id < f[j].id

\* recalculate_display_numbers run against the rows `visible` to its
\* SELECT: the assignment id -> display_number.
recalculate_display_numbers(visible, c) ==
    LET collection_albums_ == OrderBySortOrder(Members(visible, c))
    IN  [id \in {m.id : m \in Members(visible, c)} |->
            CHOOSE i \in DOMAIN collection_albums_ : collection_albums_[i].id = id]

ApplyDisplayNumbers(M, num) ==
    {IF m.id \in DOMAIN num THEN [m EXCEPT !.display_number = num[m.id]] ELSE m : m \in M}

\* The album table: every album of Albums exists, other ids do not.
AlbumExists(a) == a \in Albums

\* add_album_to_collection replacing the stored membership by a new one.
add_album_to_collection_Overwrite(M, c, a, sort_order, new_id) ==
    LET kept == {m \in M : ~(m.collection_id = c /\ m.album_id = a)}
        order == IF sort_order = NoSort
                 THEN Cardinality(Members(kept, c)) + 1
                 ELSE sort_order
        flushed == kept \cup {[id |-> new_id, collection_id |-> c, album_id |-> a,
                               sort_order |-> order, display_number |-> 0]}
    IN  IF ~AlbumExists(a)
        THEN [ret |-> None, collection_albums |-> M]
        ELSE [ret |-> IF kept = M THEN "created" ELSE "existing",
              collection_albums |->
                  ApplyDisplayNumbers(flushed, recalculate_display_numbers(flushed, c))]

add_album_to_collection_NoAlbumLookup(M, c, a, sort_order, new_id) ==
    IF FindMembership(M, c, a) # {}
    THEN [ret |-> "existing", collection_albums |-> M]
    ELSE LET order == IF sort_order = NoSort
                      THEN Cardinality(Members(M, c)) + 1
                      ELSE sort_order
             flushed == M \cup {[id |-> new_id, collection_id |-> c, album_id |-> a,
                                 sort_order |-> order, display_number |-> 0]}
         IN  [ret |-> "created",
              collection_albums |->
                  ApplyDisplayNumbers(flushed, recalculate_display_numbers(flushed, c))]

\* sort_order = NoSort stands for the argument left out.  The new row is
\* flushed before the display numbers are recalculated.
add_album_to_collection(M, c, a, sort_order, new_id) ==
    IF FindMembership(M, c, a) # {}
    THEN [ret |-> "existing", collection_albums |-> M]
    ELSE IF ~AlbumExists(a)
    THEN [ret |-> None, collection_albums |-> M]
    ELSE LET order == IF sort_order = NoSort
                      THEN Cardinality(Members(M, c)) + 1
                      ELSE sort_order
             flushed == M \cup {[id |-> new_id, collection_id |-> c, album_id |-> a,
                                 sort_order |-> order, display_number |-> 0]}
         IN  [ret |-> "created",
              collection_albums |->
                  ApplyDisplayNumbers(flushed, recalculate_display_numbers(flushed, c))]

\* db.delete() only marks the row; with autoflush off the SELECT of
\* recalculate_display_numbers still returns it, and it is numbered with the
\* others.  The commit then deletes it.
remove_album_from_collection(M, c, a) ==
    IF FindMembership(M, c, a) = {}
    THEN [ok |-> FALSE, collection_albums |-> M]
    ELSE [ok |-> TRUE,
          collection_albums |->
              {m \in ApplyDisplayNumbers(M, recalculate_display_numbers(M, c)) :
                  ~(m.collection_id = c /\ m.album_id = a)}]

\* The new sort_order is set on the object but not flushed when the SELECT
\* of recalculate_display_numbers orders the rows: it orders them by the
\* sort_order values of table M.  The commit writes both.
update_album_sort_order(M, c, a, new_sort_order) ==
    IF FindMembership(M, c, a) = {}
    THEN [ok |-> FALSE, collection_albums |-> M]
    ELSE [ok |-> TRUE,
          collection_albums |->
              {IF m.collection_id = c /\ m.album_id = a
               THEN [m EXCEPT !.sort_order = new_sort_order]
               ELSE m : m \in ApplyDisplayNumbers(M, recalculate_display_numbers(M, c))}]

\* The sort_order values are flushed before the display numbers are
\* recalculated.
set_collection_album_order(M, c, album_ids) ==
    LET found == {m \in Members(M, c) : m.album_id \in Range(album_ids)}
        flushed == {IF m \in found
                    THEN [m EXCEPT !.sort_order = IndexOf(album_ids, m.album_id) - 1]
                    ELSE m : m \in M}
    IN  IF album_ids = <<>>
        THEN [ok |-> TRUE, collection_albums |-> M]
        ELSE IF Cardinality(found) # Len(album_ids)
        THEN [ok |-> FALSE, collection_albums |-> M]
        ELSE [ok |-> TRUE,
              collection_albums |->
                  ApplyDisplayNumbers(flushed, recalculate_display_numbers(flushed, c))]

(***************************************************************************)
(* Collections and their sections.  A collection row is                    *)
(*   [id, sections_enabled, sections],                                     *)
(* a section [order, name, color, start_slot, end_slot] (SectionItem,      *)
(* api/admin.py:71-76).                                                    *)
(***************************************************************************)
MinSections == 3
MaxSections == 10

Section(order, name, color, start_slot, end_slot) ==
    [order |-> order, name |-> name, color |-> color,
     start_slot |-> start_slot, end_slot |-> end_slot]

\* str.strip() on the strings the requests are made of: a string of blanks
\* becomes empty, blanks around a word are dropped.
Strip(str) ==
    CASE str \in {"", " ", "  "} -> ""
      [] str = " Rock " -> "Rock"
      [] OTHER -> str

\* sorted(sections, key=order): Python's sort is stable, entries with the
\* same order keep their order in the list.
SortedByOrder(sections) ==
    LET Rank(i) == Cardinality({j \in DOMAIN sections :
                        \/ sections[j].order < sections[i].order
                        \/ sections[j].order = sections[i].order /\ j < i})
    IN  [k \in DOMAIN sections |->
            sections[CHOOSE i \in DOMAIN sections : Rank(i) = k - 1]]

\* The loop over the entries: a ValueError for an empty name or color or
\* for an order seen before.
EntriesValid(sections) ==
    \A i \in DOMAIN sections :
        /\ Strip(sections[i].name) # ""
        /\ Strip(sections[i].color) # ""
        /\ \A j \in 1..(i - 1) : sections[j].order # sections[i].order

has_ranges(sections_list) ==
    LET sorted_sec == SortedByOrder(sections_list)
    IN  /\ sections_list # <<>>
        /\ \A i \in DOMAIN sorted_sec :
              /\ sorted_sec[i].start_slot # NoSlot
              /\ i < Len(sorted_sec) => sorted_sec[i].end_slot # NoSlot

\* The loop over the sections sorted by order, run when has_ranges holds:
\* TRUE when it raises no ValueError.
RangesValid(sections) ==
    LET sorted_by_order == SortedByOrder(sections)
    IN  \A i \in DOMAIN sorted_by_order :
            LET start_slot == sorted_by_order[i].start_slot
                end_slot == sorted_by_order[i].end_slot
                is_last == i = Len(sorted_by_order)
            IN  /\ ~(start_slot = NoSlot \/ start_slot < 1)
                /\ is_last => /\ ~(end_slot # NoSlot /\ end_slot < 1)
                              /\ ~(end_slot # NoSlot /\ start_slot > end_slot)
                /\ ~is_last => /\ ~(end_slot = NoSlot \/ end_slot < 1)
                               /\ ~(start_slot > end_slot)
                /\ i = 1 => start_slot = 1
                /\ i > 1 => /\ sorted_by_order[i - 1].end_slot # NoSlot
                            /\ start_slot = sorted_by_order[i - 1].end_slot + 1

FindCollection(C, collection_id) == {col \in C : col.id = collection_id}

\* PUT /collections/{slug}/albums with action = add: the route looks the
\* collection up and answers 404 when there is none, then calls
\* add_album_to_collection and answers 400 when it returns None.
update_collection_albums_add(C, M, c, a, sort_order, new_id) ==
    LET r == add_album_to_collection(M, c, a, sort_order, new_id)
    IN  IF FindCollection(C, c) = {}
        THEN [status |-> 404, collection_albums |-> M]
        ELSE [status |-> IF r.ret = None THEN 400 ELSE 200,
              collection_albums |-> r.collection_albums]

\* update_collection_sections without the upper limit on the number of
\* sections.
update_collection_sections_NoUpperLimit(C, collection_id, sections_enabled, sections) ==
    LET Store(stored) ==
            {IF col.id = collection_id
             THEN [col EXCEPT !.sections = stored, !.sections_enabled = sections_enabled]
             ELSE col : col \in C}
    IN  IF FindCollection(C, collection_id) = {}
        THEN [ret |-> "not_found", collections |-> C]
        ELSE IF ~sections_enabled
        THEN [ret |-> "ok", collections |-> Store(NoSections)]
        ELSE IF \/ sections = NoSections
                \/ Len(sections) < MinSections
                \/ ~EntriesValid(sections)
                \/ has_ranges(sections) /\ ~RangesValid(sections)
        THEN [ret |-> "ValueError", collections |-> C]
        ELSE [ret |-> "ok", collections |-> Store(sections)]

\* ret is "not_found" (the method returns None), "ValueError" or "ok".
update_collection_sections(C, collection_id, sections_enabled, sections) ==
    LET Store(stored) ==
            {IF col.id = collection_id
             THEN [col EXCEPT !.sections = stored, !.sections_enabled = sections_enabled]
             ELSE col : col \in C}
    IN  IF FindCollection(C, collection_id) = {}
        THEN [ret |-> "not_found", collections |-> C]
        ELSE IF ~sections_enabled
        THEN [ret |-> "ok", collections |-> Store(NoSections)]
        ELSE IF \/ sections = NoSections
                \/ Len(sections) < MinSections
                \/ Len(sections) > MaxSections
                \/ ~EntriesValid(sections)
                \/ has_ranges(sections) /\ ~RangesValid(sections)
        THEN [ret |-> "ValueError", collections |-> C]
        ELSE [ret |-> "ok", collections |-> Store(sections)]

\* The rows of the collection's albums, queue items and playback states go
\* with it (cascade="all, delete-orphan", models/collection.py:29-31).
delete_collection(C, M, Q, P, collection_id) ==
    IF FindCollection(C, collection_id) = {}
    THEN [ok |-> FALSE, collections |-> C, collection_albums |-> M,
          queue |-> Q, playback_state |-> P]
    ELSE [ok |-> TRUE,
          collections |-> {col \in C : col.id # collection_id},
          collection_albums |-> {m \in M : m.collection_id # collection_id},
          queue |-> {q \in Q : q.collection_id # collection_id},
          playback_state |-> {st \in P : st.collection_id # collection_id}]

(***************************************************************************)
(* The state machine.  Calls run one at a time, each to its commit.        *)
(* `last` records which call ran last and whether it reported success.     *)
(***************************************************************************)
(* The virtual "all" collection.  An album row is                          *)
(*   [id, artist, title, archived].                                        *)
(***************************************************************************)
\* ORDER BY artist, title (no two albums of the model agree on both).
get_all_albums(A) ==
    CHOOSE f \in Listings(A) :
        \A i, j \in DOMAIN f : i < j =>
            \/ f[i].artist < f[j].artist
            \/ f[i].artist = f[j].artist /\ f[i].title < f[j].title

NotArchived(a) == ~a.archived

\* GET /collections/all/albums: the albums that are not archived, numbered
\* in the order of get_all_albums.
all_collection_albums(A) ==
    LET listed == SelectSeq(get_all_albums(A), NotArchived)
    IN  [idx \in 1..Len(listed) |-> [id |-> listed[idx].id, display_number |-> idx]]

\* POST /api/queue with collection = "all": the album is looked up by its
\* number in get_all_albums, its tracks are read with get_tracks_by_album
\* and the track asked for (all of them for track_number = 0) is enqueued.
\* `album` is the album the number was resolved to, status the answer.
add_to_queue_all(A, T, Q, album_number, track_number) ==
    LET all_albums == get_all_albums(A)
        album == all_albums[album_number]
        tracks_ == get_tracks_by_album(T, album.id, TRUE)
        album_tracks == tracks_.album_tracks
        one == add_to_queue(Q, AllCollectionId, album_tracks[track_number].id)
    IN  IF album_number < 1 \/ album_number > Len(all_albums)
        THEN [status |-> 404, album |-> None, queue |-> Q]
        ELSE IF tracks_.raised
        THEN [status |-> 500, album |-> album.id, queue |-> Q]
        ELSE IF track_number = 0
        THEN [status |-> 200, album |-> album.id,
              queue |-> add_album_to_queue(Q, AllCollectionId,
                                           [k \in DOMAIN album_tracks |->
                                               album_tracks[k].id]).queue]
        ELSE IF track_number < 1 \/ track_number > Len(album_tracks)
        THEN [status |-> 404, album |-> album.id, queue |-> Q]
        ELSE [status |-> 200, album |-> album.id, queue |-> one.queue]

\* PUT /albums/{album_id} with artist and archived given.
update_album(A, album_id, artist, archived) ==
    {IF a.id = album_id THEN [a EXCEPT !.artist = artist, !.archived = archived] ELSE a :
        a \in A}

(***************************************************************************)
Call(op, ok) == [op |-> op, ok |-> ok]

\* A collection row as created: no sections (models/collection.py:23-24).
\* Every request is served with a Session of its own (database.py:26-37),
\* by a thread of the pool: two requests can be in the middle of their
\* calls at once.
Sessions == {"s1", "s2"}

\* What a session holds between two statements of the call it serves: the
\* call and its arguments, the place in the code, and the values read.
Idle ==
    [op |-> "idle", pc |-> "idle", c |-> None, track_ids |-> <<>>, i |-> 0,
     count |-> 0, album_id |-> None, sort_order |-> NoSort, loaded |-> {},
     pending |-> {}]

NoCalls == [s \in Sessions |-> Idle]

NewCollection(id) == [id |-> id, sections_enabled |-> FALSE, sections |-> NoSections]

\* t1 and t2 are the first and the second track of album a1.
DefaultTracks ==
    {[id |-> "t1", album_id |-> "a1", disc_number |-> 1, track_number |-> 1,
      enabled |-> TRUE],
     [id |-> "t2", album_id |-> "a1", disc_number |-> 1, track_number |-> 2,
      enabled |-> TRUE]}

\* The albums of Albums as the library scan stored them, none archived.
\* artist and title are given by their rank in the ordering of the
\* database: a3 sorts first, then a2, then a1.
DefaultAlbums ==
    {[id |-> "a1", artist |-> 2, title |-> 1, archived |-> FALSE],
     [id |-> "a2", artist |-> 1, title |-> 3, archived |-> FALSE],
     [id |-> "a3", artist |-> 1, title |-> 2, archived |-> FALSE]}

\* The "all" collection is created at startup (main.py:31-46); the
\* collections of Collections have been created, the other tables are empty.
Init ==
    /\ collection_albums = {}
    /\ queue = {}
    /\ playback_state = {}
    /\ collections = {NewCollection(id) : id \in Collections \cup {AllCollectionId}}
    /\ tracks = DefaultTracks
    /\ albums = DefaultAlbums
    /\ request = {}
    /\ calls = NoCalls
    /\ last = Call("init", TRUE)

\* POST /api/queue for one track (api/queue.py:189-193): the response is
\* "already_queued" when add_to_queue returns no row, ok = FALSE here.
Enqueue(c, t) ==
    LET r == add_to_queue(queue, c, t)
    IN  /\ Cardinality(r.queue) <= MaxQueueRows
        /\ \A q \in r.queue : q.position <= MaxPosition
        /\ queue' = r.queue
        /\ last' = Call("enqueue", r.item # NoId)
        /\ UNCHANGED <<collection_albums, playback_state, collections, tracks, albums, request, calls>>

EnqueueMany(c, track_ids) ==
    LET r == add_album_to_queue(queue, c, track_ids)
    IN  /\ Cardinality(r.queue) <= MaxQueueRows
        /\ \A q \in r.queue : q.position <= MaxPosition
        /\ queue' = r.queue
        /\ last' = Call("enqueueMany", TRUE)
        /\ UNCHANGED <<collection_albums, playback_state, collections, tracks, albums, request, calls>>

MarkPlaying(queue_id) ==
    /\ queue' = mark_playing(queue, queue_id)
    /\ last' = Call("markPlaying", \E q \in queue : q.id = queue_id)
    /\ UNCHANGED <<collection_albums, playback_state, collections, tracks, albums, request, calls>>

MarkPlayed(queue_id) ==
    /\ queue' = mark_played(queue, queue_id)
    /\ last' = Call("markPlayed", \E q \in queue : q.id = queue_id)
    /\ UNCHANGED <<collection_albums, playback_state, collections, tracks, albums, request, calls>>

\* remove that also stops the playback of every collection.
Remove_StopsPlayback(queue_id) ==
    \E r \in remove_from_queue(queue, queue_id) :
        /\ queue' = r.queue
        /\ playback_state' = {[st EXCEPT !.current_track_id = None, !.is_playing = FALSE,
                                         !.current_position_ms = 0] : st \in playback_state}
        /\ last' = Call("remove", r.ok)
        /\ UNCHANGED <<collection_albums, collections, tracks, albums, request, calls>>

Remove(queue_id) ==
    \E r \in remove_from_queue(queue, queue_id) :
        /\ queue' = r.queue
        /\ last' = Call("remove", r.ok)
        /\ UNCHANGED <<collection_albums, playback_state, collections, tracks, albums, request, calls>>

Reorder(c, ordered_queue_ids) ==
    LET r == reorder_queue(queue, c, ordered_queue_ids)
    IN  /\ queue' = r.queue
        /\ last' = Call("reorder", r.ok)
        /\ UNCHANGED <<collection_albums, playback_state, collections, tracks, albums, request, calls>>

Clear(c, clear_played) ==
    LET r == clear_queue(queue, c, clear_played)
    IN  /\ queue' = r.queue
        /\ last' = Call(IF clear_played THEN "clearAll" ELSE "clear", TRUE)
        /\ UNCHANGED <<collection_albums, playback_state, collections, tracks, albums, request, calls>>

Play(c) ==
    \E r \in play(queue, playback_state, c) :
        /\ queue' = r.queue
        /\ playback_state' = r.playback_state
        /\ last' = Call("play", TRUE)
        /\ UNCHANGED <<collection_albums, collections, tracks, albums, request, calls>>

Pause(c) ==
    /\ playback_state' = pause(playback_state, c)
    /\ last' = Call("pause", get_playback_state(playback_state, c) # {})
    /\ UNCHANGED <<collection_albums, queue, collections, tracks, albums, request, calls>>

Stop(c) ==
    /\ playback_state' = stop(playback_state, c)
    /\ last' = Call("stop", get_playback_state(playback_state, c) # {})
    /\ UNCHANGED <<collection_albums, queue, collections, tracks, albums, request, calls>>

Skip(c) ==
    \E r \in skip(queue, playback_state, c) :
        /\ queue' = r.queue
        /\ playback_state' = r.playback_state
        /\ last' = Call("skip", TRUE)
        /\ UNCHANGED <<collection_albums, collections, tracks, albums, request, calls>>

AddAlbum(c, a, sort_order, new_id) ==
    LET r == update_collection_albums_add(collections, collection_albums, c, a,
                                          sort_order, new_id)
    IN  /\ \/ \A m \in collection_albums : m.id # new_id
           \/ FindMembership(collection_albums, c, a) # {}
           \/ ~AlbumExists(a)
        /\ collection_albums' = r.collection_albums
        /\ last' = Call("addAlbum", r.status = 200)
        /\ UNCHANGED <<queue, playback_state, collections, tracks, albums, request, calls>>

RemoveAlbum(c, a) ==
    LET r == remove_album_from_collection(collection_albums, c, a)
    IN  /\ collection_albums' = r.collection_albums
        /\ last' = Call("removeAlbum", r.ok)
        /\ UNCHANGED <<queue, playback_state, collections, tracks, albums, request, calls>>

SetSortOrder(c, a, new_sort_order) ==
    LET r == update_album_sort_order(collection_albums, c, a, new_sort_order)
    IN  /\ collection_albums' = r.collection_albums
        /\ last' = Call("setSortOrder", r.ok)
        /\ UNCHANGED <<queue, playback_state, collections, tracks, albums, request, calls>>

SetFullOrder(c, album_ids) ==
    LET r == set_collection_album_order(collection_albums, c, album_ids)
    IN  /\ collection_albums' = r.collection_albums
        /\ last' = Call("setFullOrder", r.ok)
        /\ UNCHANGED <<queue, playback_state, collections, tracks, albums, request, calls>>

UpdatePosition(c, position_ms) ==
    /\ playback_state' = update_position(playback_state, c, position_ms)
    /\ last' = Call("updatePosition", get_playback_state(playback_state, c) # {})
    /\ UNCHANGED <<collection_albums, queue, collections, tracks, albums, request, calls>>

SetVolume(c, volume) ==
    /\ playback_state' = set_volume(playback_state, c, volume)
    /\ last' = Call("setVolume", TRUE)
    /\ UNCHANGED <<collection_albums, queue, collections, tracks, albums, request, calls>>

\* A read: ok = FALSE when the call raises.
GetNextTransition(c) ==
    \E r \in get_next_transition(queue, playback_state, tracks, c) :
        /\ last' = Call("getNextTransition", ~r.raised)
        /\ UNCHANGED <<collection_albums, queue, playback_state, collections, tracks, albums, request, calls>>

\* PUT /collections/{collection_id}/sections (api/admin.py:279-296) with the
\* body `request`: 400 for a ValueError, 404 when the method returns None.
SetSections(collection_id) ==
    \E body \in request :
        LET r == update_collection_sections(collections, collection_id,
                                            body.sections_enabled, body.sections)
        IN  /\ collections' = r.collections
            /\ last' = Call("setSections", r.ret = "ok")
            /\ UNCHANGED <<collection_albums, queue, playback_state, tracks, albums, request, calls>>

\* DELETE /collections/{collection_id} (api/admin.py:264-276): 400 for the
\* "all" collection, 404 when the method returns False.
DeleteCollection(collection_id) ==
    LET r == delete_collection(collections, collection_albums, queue, playback_state,
                               collection_id)
    IN  IF collection_id = AllCollectionId
        THEN /\ last' = Call("deleteCollection", FALSE)
             /\ UNCHANGED <<collection_albums, queue, playback_state, collections,
                            tracks, albums, request, calls>>
        ELSE /\ collections' = r.collections
             /\ collection_albums' = r.collection_albums
             /\ queue' = r.queue
             /\ playback_state' = r.playback_state
             /\ last' = Call("deleteCollection", r.ok)
             /\ UNCHANGED <<tracks, albums, request, calls>>

UpdateAlbum(album_id, artist, archived) ==
    /\ albums' = update_album(albums, album_id, artist, archived)
    /\ last' = Call("updateAlbum", \E a \in albums : a.id = album_id)
    /\ UNCHANGED <<collection_albums, queue, playback_state, collections, tracks, request,
                   calls>>

\* GET /collections/all/albums.
ListAllAlbums ==
    /\ last' = Call("listAllAlbums", Len(all_collection_albums(albums)) > 0)
    /\ UNCHANGED <<collection_albums, queue, playback_state, collections, tracks, albums,
                   request, calls>>

EnqueueByNumber(album_number, track_number) ==
    LET r == add_to_queue_all(albums, tracks, queue, album_number, track_number)
    IN  /\ Cardinality(r.queue) <= MaxQueueRows
        /\ queue' = r.queue
        /\ last' = Call("enqueueByNumber", r.status = 200)
        /\ UNCHANGED <<collection_albums, playback_state, collections, tracks, albums,
                       request, calls>>

\* The inputs the calls are tried with.  "a9" is the id of no album.
TrackLists == SeqsUpTo(Tracks, MaxListLen)
QueueIdLists == SeqsUpTo(QueueIds, MaxListLen)
AlbumInputs == Albums \cup {"a9"}
AlbumLists == SeqsUpTo(AlbumInputs, MaxAlbumListLen)

PositionInputs == 0..MaxPositionMs
VolumeInputs == {-10, 0, DefaultVolume, 100, 150}

\* The section lists the requests are made of.
\* Lists of MinSections - 1 and MinSections entries without slots, with
\* every order, blank and non-blank names and colors.
SectionsBasic ==
    LET entries == {Section(order, name, color, NoSlot, NoSlot) :
                        order \in 0..(MinSections - 1),
                        name \in {"Rock", "  "}, color \in {"#f00", ""}}
    IN  [1..(MinSections - 1) -> entries] \cup [1..MinSections -> entries]

\* Lists of MinSections named sections, listed in the order of their `order`
\* or against it, every start_slot and end_slot absent or in 1..MaxSlot.
SectionsRanged ==
    LET Slots == {NoSlot} \cup 1..MaxSlot
        slots == [1..MinSections -> Slots \X Slots]
        orders == {[i \in 1..MinSections |-> i - 1],
                   [i \in 1..MinSections |-> MinSections - i]}
    IN  {[i \in 1..MinSections |->
            Section(order[i], "Rock", "#f00", slot[i][1], slot[i][2])] :
                order \in orders, slot \in slots}

\* Lists of MaxSections and MaxSections + 1 named sections, without slots
\* and with the slots i..i, the last one open.
SectionsLong ==
    UNION {{[i \in 1..n |-> Section(i - 1, "Rock", "#f00", NoSlot, NoSlot)],
            [i \in 1..n |-> Section(i - 1, " Rock ", "#f00", i,
                                     IF i = n THEN NoSlot ELSE i)]} :
              n \in {MaxSections, MaxSections + 1}}

SectionLists == SectionsBasic \cup SectionsRanged \cup SectionsLong

\* A list update_collection_sections accepts: three sections, slots 1..1,
\* 2..2 and 3 to the end.
StoredSections ==
    [i \in 1..MinSections |->
        Section(i - 1, "Rock", "#f00", i, IF i = MinSections THEN NoSlot ELSE i)]

SectionRequests ==
    {[sections_enabled |-> TRUE, sections |-> sections] : sections \in SectionLists}
        \cup {[sections_enabled |-> FALSE, sections |-> sections] :
                  sections \in {NoSections, StoredSections}}

\* The collection ids the section and delete requests name (once deleted,
\* "c1" is the id of no collection).
SectionTargets == {"c1", AllCollectionId}

\* Every query of the three services filters on collection_id, and no call
\* on one collection writes a row of another: the specifications below
\* drive the calls of one collection.
Driven == {"c1"}

NextPlayback ==
    \E c \in Driven :
        \/ \E t \in Tracks : Enqueue(c, t)
        \/ Play(c)
        \/ Pause(c)
        \/ Stop(c)
        \/ Skip(c)

NextQueueNoMark ==
    \/ NextPlayback
    \/ \E c \in Driven :
        \/ \E track_ids \in TrackLists : EnqueueMany(c, track_ids)
        \/ \E ids \in QueueIdLists : Reorder(c, ids)
        \/ \E clear_played \in BOOLEAN : Clear(c, clear_played)
    \/ \E queue_id \in QueueIds : Remove(queue_id)

NextQueue ==
    \/ NextQueueNoMark
    \/ \E queue_id \in QueueIds : MarkPlaying(queue_id)
    \/ \E queue_id \in QueueIds : MarkPlayed(queue_id)

NextOrder ==
    \E c \in Driven :
        \/ \E a \in AlbumInputs, s \in SortOrders \cup {NoSort}, id \in MembershipIds :
              AddAlbum(c, a, s, id)
        \/ \E a \in AlbumInputs : RemoveAlbum(c, a)
        \/ \E a \in AlbumInputs, s \in SortOrders : SetSortOrder(c, a, s)
        \/ \E album_ids \in AlbumLists : SetFullOrder(c, album_ids)

NextState ==
    \/ NextPlayback
    \/ \E c \in Driven :
        \/ \E position_ms \in PositionInputs : UpdatePosition(c, position_ms)
        \/ \E volume \in VolumeInputs : SetVolume(c, volume)

NextTransition ==
    \/ NextPlayback
    \/ \E c \in Driven : GetNextTransition(c)

NextSections ==
    \E collection_id \in SectionTargets :
        \/ SetSections(collection_id)
        \/ DeleteCollection(collection_id)

\* QueueService and PlaybackService read and write the tables queue and
\* playback_state only, CollectionService the table collection_albums only.
\* A behaviour of Next runs the calls of one of the two groups.
Next ==
    \/ collection_albums = {} /\ NextQueueNoMark
    \/ queue = {} /\ playback_state = {} /\ NextOrder

\* enqueue, play, pause, stop and skip.
SpecPlayback == Init /\ [][NextPlayback]_vars

\* The queue and playback calls without markPlaying / markPlayed.
SpecQueueNoMark == Init /\ [][NextQueueNoMark]_vars

\* All queue and playback calls.
SpecQueue == Init /\ [][NextQueue]_vars

\* The calls of the collection ordering.
SpecOrder == Init /\ [][NextOrder]_vars

Spec == Init /\ [][Next]_vars

\* The playback calls with updatePosition and setVolume.
SpecState == Init /\ [][NextState]_vars

\* getNextTransition between the playback calls.
SpecTransition == Init /\ [][NextTransition]_vars

\* The ordering calls of "c1", addAlbum also for "c9", the id of no
\* collection, and for "c1" after it was deleted.
NextMembers ==
    \/ NextOrder
    \/ \E a \in AlbumInputs, id \in MembershipIds : AddAlbum("c9", a, NoSort, id)
    \/ DeleteCollection("c1")

SpecMembers == Init /\ [][NextMembers]_vars

\* The queue and playback calls without reorder (and without markPlaying /
\* markPlayed).
NextNoReorder ==
    \/ NextPlayback
    \/ \E c \in Driven :
        \/ \E track_ids \in TrackLists : EnqueueMany(c, track_ids)
        \/ \E clear_played \in BOOLEAN : Clear(c, clear_played)
    \/ \E queue_id \in QueueIds : Remove(queue_id)

SpecNoReorder == Init /\ [][NextNoReorder]_vars

\* The playback calls, updatePosition and setVolume together with the queue
\* calls.
NextStateQueue ==
    \/ NextState
    \/ \E c \in Driven :
        \/ \E track_ids \in TrackLists : EnqueueMany(c, track_ids)
        \/ \E ids \in QueueIdLists : Reorder(c, ids)
        \/ \E clear_played \in BOOLEAN : Clear(c, clear_played)
    \/ \E queue_id \in QueueIds : Remove(queue_id)

SpecStateQueue == Init /\ [][NextStateQueue]_vars

\* Any sequence of enqueue, play, pause and stop, and from the first skip on
\* nothing but skip.
NextDrain ==
    \E c \in Driven :
        \/ /\ last.op # "skip"
           /\ \/ \E t \in Tracks : Enqueue(c, t)
              \/ Play(c)
              \/ Pause(c)
              \/ Stop(c)
        \/ Skip(c)

SpecDrain == Init /\ [][NextDrain]_vars

\* skip is invoked again and again.
SpecDrainFair == SpecDrain /\ WF_vars(\E c \in Driven : Skip(c))

\* The artists (by rank) the album updates name.
ArtistInputs == 1..2

\* The "all" collection: albums are renamed and archived, listed, and
\* enqueued by their number.
NextAll ==
    \/ \E a \in AlbumInputs, artist \in ArtistInputs, archived \in BOOLEAN :
          UpdateAlbum(a, artist, archived)
    \/ ListAllAlbums
    \/ \E album_number \in 0..(Cardinality(Albums) + 1), track_number \in 0..MaxListLen :
          EnqueueByNumber(album_number, track_number)

SpecAll == Init /\ [][NextAll]_vars

\* One sections request, served for a collection that has no sections or
\* has StoredSections, and the delete requests.
InitSections ==
    /\ collection_albums = {}
    /\ queue = {}
    /\ playback_state = {}
    /\ \E stored \in {NoSections, StoredSections} :
          collections =
              {NewCollection(id) : id \in (Collections \ {"c1"}) \cup {AllCollectionId}}
                  \cup {[id |-> "c1", sections_enabled |-> stored # NoSections,
                         sections |-> stored]}
    /\ tracks = DefaultTracks
    /\ albums = DefaultAlbums
    /\ request \in {{body} : body \in SectionRequests}
    /\ calls = NoCalls
    /\ last = Call("init", TRUE)

SpecSections == InitSections /\ [][NextSections]_vars

(***************************************************************************)
(* The calls statement by statement.  A session reads the committed rows   *)
(* of the tables with each SELECT and writes its changes at db.commit();   *)
(* nothing in the services or the routes keeps a second session from       *)
(* running its statements in between.  A step below runs the statements of *)
(* a call up to its next commit.                                           *)
(***************************************************************************)
InCall(s, op, pc) == calls[s].op = op /\ calls[s].pc = pc

Goto(s, pc) == [calls EXCEPT ![s].pc = pc]

Return(s) == [calls EXCEPT ![s] = Idle]

\* The rows the calls in progress are still to insert into table queue.
RowsToCome ==
    LET n(s) == IF calls[s].op = "enqueue"
                THEN Len(calls[s].track_ids) - calls[s].i + 1
                ELSE 0
    IN  n("s1") + n("s2")

\* POST /api/queue reaches add_to_queue (one track) or add_album_to_queue
\* (the tracks of an album): the loop over track_ids starts.
BeginEnqueue(s, c, track_ids) ==
    /\ calls[s] = Idle
    /\ track_ids # <<>>
    /\ Cardinality(queue) + RowsToCome + Len(track_ids) <= MaxQueueRows
    /\ calls' = [calls EXCEPT ![s] = [Idle EXCEPT !.op = "enqueue", !.pc = "read", !.c = c,
                                                  !.track_ids = track_ids, !.i = 1]]
    /\ UNCHANGED <<collection_albums, queue, playback_state, collections, tracks, albums, request,
                   last>>

\* The loop of add_album_to_queue moves to the next track or ends.
NextTrack(s, call) ==
    IF call.i < Len(call.track_ids)
    THEN [calls EXCEPT ![s] = [call EXCEPT !.pc = "read", !.i = call.i + 1, !.pending = {}]]
    ELSE Return(s)

\* add_to_queue up to db.add(): the two SELECTs and the new Queue object.
EnqueueRead(s) ==
    LET call == calls[s]
        r == add_to_queue(queue, call.c, call.track_ids[call.i])
    IN  /\ InCall(s, "enqueue", "read")
        /\ IF r.item = NoId
           THEN /\ calls' = NextTrack(s, call)
                /\ last' = IF call.i < Len(call.track_ids)
                           THEN last
                           ELSE Call("enqueue", call.count > 0)
           ELSE /\ calls' = [calls EXCEPT ![s].pc = "commit",
                                          ![s].pending = {q \in r.queue : q.id = r.item}]
                /\ last' = last
        /\ UNCHANGED <<collection_albums, queue, playback_state, collections, tracks, albums,
                       request>>

\* db.commit() of add_to_queue: the INSERT of the new row, with the position
\* computed before.
EnqueueCommit(s) ==
    LET call == calls[s]
        done == [call EXCEPT !.count = call.count + 1]
    IN  /\ InCall(s, "enqueue", "commit")
        /\ queue' = queue \cup {[q EXCEPT !.id = NewQueueId(queue)] : q \in call.pending}
        /\ calls' = NextTrack(s, done)
        /\ last' = IF call.i < Len(call.track_ids) THEN last ELSE Call("enqueue", TRUE)
        /\ UNCHANGED <<collection_albums, playback_state, collections, tracks, albums, request>>

BeginPlay(s, c) ==
    /\ calls[s] = Idle
    /\ calls' = [calls EXCEPT ![s] = [Idle EXCEPT !.op = "play", !.pc = "create", !.c = c]]
    /\ UNCHANGED <<collection_albums, queue, playback_state, collections, tracks, albums, request,
                   last>>

BeginSkip(s, c) ==
    /\ calls[s] = Idle
    /\ calls' = [calls EXCEPT ![s] = [Idle EXCEPT !.op = "skip", !.pc = "create", !.c = c]]
    /\ UNCHANGED <<collection_albums, queue, playback_state, collections, tracks, albums, request,
                   last>>

\* get_or_create_playback_state at the head of play and skip: commits a new
\* row when there is none.
CreateState(s) ==
    /\ calls[s].op \in {"play", "skip"}
    /\ calls[s].pc = "create"
    /\ playback_state' = get_or_create_playback_state(playback_state, calls[s].c)
    /\ calls' = Goto(s, IF calls[s].op = "play" THEN "pull" ELSE "mark")
    /\ UNCHANGED <<collection_albums, queue, collections, tracks, albums, request, last>>

\* play, lines 121-129: without a current track the next pending item is
\* pulled, and the commit of mark_playing writes its status together with
\* the track and the position set on the state.
PlayPull(s) ==
    LET c == calls[s].c
        state == StateOf(playback_state, c)
    IN  /\ InCall(s, "play", "pull")
        /\ IF state.current_track_id # None
           THEN /\ calls' = Goto(s, "start")
                /\ UNCHANGED <<queue, playback_state, last>>
           ELSE IF get_next_track(queue, c) = {}
           THEN /\ calls' = Return(s)
                /\ last' = Call("play", TRUE)
                /\ UNCHANGED <<queue, playback_state>>
           ELSE \E next_queue \in get_next_track(queue, c) :
                    /\ queue' = mark_playing(queue, next_queue.id)
                    /\ playback_state' =
                           PutState(playback_state, c,
                                    [state EXCEPT !.current_track_id = next_queue.track_id,
                                                  !.current_position_ms = 0])
                    /\ calls' = Goto(s, "start")
                    /\ last' = last
        /\ UNCHANGED <<collection_albums, collections, tracks, albums, request>>

\* play, lines 131-132: is_playing is set and committed.
PlayStart(s) ==
    LET c == calls[s].c
    IN  /\ InCall(s, "play", "start")
        /\ playback_state' =
               PutState(playback_state, c,
                        [StateOf(playback_state, c) EXCEPT !.is_playing = TRUE])
        /\ calls' = Return(s)
        /\ last' = Call("play", TRUE)
        /\ UNCHANGED <<collection_albums, queue, collections, tracks, albums, request>>

\* skip, lines 186-193: mark_played commits the status of the current item.
SkipMark(s) ==
    LET c == calls[s].c
        state == StateOf(playback_state, c)
        current == {q \in queue : /\ q.collection_id = c
                                  /\ q.track_id = state.current_track_id
                                  /\ q.status = PLAYING}
    IN  /\ InCall(s, "skip", "mark")
        /\ IF state.current_track_id # None /\ current # {}
           THEN \E current_queue \in current :
                    queue' = mark_played(queue, current_queue.id)
           ELSE queue' = queue
        /\ calls' = Goto(s, "next")
        /\ UNCHANGED <<collection_albums, playback_state, collections, tracks, albums, request,
                       last>>

\* skip, lines 196-209: the next item is pulled or the state is cleared.
SkipNext(s) ==
    /\ InCall(s, "skip", "next")
    /\ \E r \in SkipToNext(queue, playback_state, calls[s].c) :
          /\ queue' = r.queue
          /\ playback_state' = r.playback_state
    /\ calls' = Return(s)
    /\ last' = Call("skip", TRUE)
    /\ UNCHANGED <<collection_albums, collections, tracks, albums, request>>

\* Two sessions serving enqueue, play and skip requests of one collection.
NextSessions ==
    \E s \in Sessions :
        \/ \E c \in Driven :
              \/ \E track_ids \in TrackLists : BeginEnqueue(s, c, track_ids)
              \/ BeginPlay(s, c)
              \/ BeginSkip(s, c)
        \/ EnqueueRead(s)
        \/ EnqueueCommit(s)
        \/ CreateState(s)
        \/ PlayPull(s)
        \/ PlayStart(s)
        \/ SkipMark(s)
        \/ SkipNext(s)

SpecSessions == Init /\ [][NextSessions]_vars

\* The rows the calls in progress are still to insert into table
\* collection_albums.
MembershipsToCome == Cardinality({s \in Sessions : calls[s].op = "addAlbum"})

\* A request to add an album reaches add_album_to_collection.
BeginAddAlbum(s, c, a, sort_order) ==
    /\ calls[s] = Idle
    /\ Cardinality(collection_albums) + MembershipsToCome + 1 <= MaxAlbumRows
    /\ calls' = [calls EXCEPT ![s] = [Idle EXCEPT !.op = "addAlbum", !.pc = "read", !.c = c,
                                                  !.album_id = a,
                                                  !.sort_order = sort_order]]
    /\ UNCHANGED <<collection_albums, queue, playback_state, collections, tracks, albums, request,
                   last>>

\* add_album_to_collection up to db.add(): the SELECTs for the membership,
\* the album and the count, and the new CollectionAlbum object.
AddAlbumRead(s) ==
    LET call == calls[s]
        r == add_album_to_collection(collection_albums, call.c, call.album_id,
                                     call.sort_order, NoId)
    IN  /\ InCall(s, "addAlbum", "read")
        /\ IF r.ret = "created"
           THEN /\ calls' = [calls EXCEPT ![s].pc = "commit",
                                          ![s].pending = {m \in r.collection_albums :
                                                              m.id = NoId}]
                /\ last' = last
           ELSE /\ calls' = Return(s)
                /\ last' = Call("addAlbum", r.ret # None)
        /\ UNCHANGED <<collection_albums, queue, playback_state, collections, tracks, albums,
                       request>>

\* db.flush(), recalculate_display_numbers and db.commit() of
\* add_album_to_collection.  The INSERT fails on unique_collection_album
\* (models/collection_album.py:31) when the membership was stored meanwhile.
AddAlbumCommit(s) ==
    LET call == calls[s]
    IN  /\ InCall(s, "addAlbum", "commit")
        /\ IF FindMembership(collection_albums, call.c, call.album_id) # {}
           THEN /\ collection_albums' = collection_albums
                /\ last' = Call("addAlbum", FALSE)
           ELSE \E new_id \in MembershipIds :
                    LET flushed == collection_albums \cup
                                       {[m EXCEPT !.id = new_id] : m \in call.pending}
                    IN  /\ \A m \in collection_albums : m.id # new_id
                        /\ collection_albums' =
                               ApplyDisplayNumbers(
                                   flushed, recalculate_display_numbers(flushed, call.c))
                        /\ last' = Call("addAlbum", TRUE)
        /\ calls' = Return(s)
        /\ UNCHANGED <<queue, playback_state, collections, tracks, albums, request>>

BeginRemoveAlbum(s, c, a) ==
    /\ calls[s] = Idle
    /\ calls' = [calls EXCEPT ![s] = [Idle EXCEPT !.op = "removeAlbum", !.pc = "read",
                                                  !.c = c, !.album_id = a]]
    /\ UNCHANGED <<collection_albums, queue, playback_state, collections, tracks, albums, request,
                   last>>

\* remove_album_from_collection up to its commit: the membership is looked
\* up and marked deleted, recalculate_display_numbers loads the memberships
\* of the collection (the marked one with them) and numbers the objects.
RemoveAlbumRead(s) ==
    LET call == calls[s]
        num == recalculate_display_numbers(collection_albums, call.c)
    IN  /\ InCall(s, "removeAlbum", "read")
        /\ IF FindMembership(collection_albums, call.c, call.album_id) = {}
           THEN /\ calls' = Return(s)
                /\ last' = Call("removeAlbum", FALSE)
           ELSE /\ calls' = [calls EXCEPT
                                ![s].pc = "commit",
                                ![s].loaded = Members(collection_albums, call.c),
                                ![s].pending =
                                    Members(ApplyDisplayNumbers(collection_albums, num),
                                            call.c)]
                /\ last' = last
        /\ UNCHANGED <<collection_albums, queue, playback_state, collections, tracks, albums,
                       request>>

\* db.commit() of remove_album_from_collection: an UPDATE for every object
\* whose display_number differs from the value loaded, then the DELETE.  An
\* UPDATE that finds its row gone raises StaleDataError and the transaction
\* is rolled back.
RemoveAlbumCommit(s) ==
    LET call == calls[s]
        changed == {m \in call.pending : m \notin call.loaded /\ m.album_id # call.album_id}
        stale == \E m \in changed : \A row \in collection_albums : row.id # m.id
        written == {IF \E m \in changed : m.id = row.id
                    THEN [row EXCEPT !.display_number =
                              (CHOOSE m \in changed : m.id = row.id).display_number]
                    ELSE row : row \in collection_albums}
    IN  /\ InCall(s, "removeAlbum", "commit")
        /\ IF stale
           THEN /\ collection_albums' = collection_albums
                /\ last' = Call("removeAlbum", FALSE)
           ELSE /\ collection_albums' =
                       {row \in written : \A m \in call.loaded :
                            m.album_id = call.album_id => row.id # m.id}
                /\ last' = Call("removeAlbum", TRUE)
        /\ calls' = Return(s)
        /\ UNCHANGED <<queue, playback_state, collections, tracks, albums, request>>

\* Two sessions serving addAlbum (without sort_order) and removeAlbum
\* requests of one collection.
NextMemberSessions ==
    \E s \in Sessions :
        \/ \E c \in Driven, a \in Albums :
              \/ BeginAddAlbum(s, c, a, NoSort)
              \/ BeginRemoveAlbum(s, c, a)
        \/ AddAlbumRead(s)
        \/ AddAlbumCommit(s)
        \/ RemoveAlbumRead(s)
        \/ RemoveAlbumCommit(s)

SpecMemberSessions == Init /\ [][NextMemberSessions]_vars

\* The calls of "c1" and "c2" side by side.  The calls of "c1" are whole
\* steps; session s2 serves "c2", statement by statement, so that the calls
\* of "c1" also fall between two commits of a call of "c2".  A behaviour
\* runs calls of the queue and of playback, or calls of the collection
\* ordering.
NextIndependent ==
    \/ /\ collection_albums = {}
       /\ calls["s2"].op \notin {"addAlbum", "removeAlbum"}
       /\ \/ \E t \in Tracks : Enqueue("c1", t)
          \/ Play("c1")
          \/ \E q \in queue : q.collection_id = "c1" /\ Remove(q.id)
          \/ BeginEnqueue("s2", "c2", <<"t1">>)
          \/ BeginPlay("s2", "c2")
          \/ BeginSkip("s2", "c2")
          \/ EnqueueRead("s2")
          \/ EnqueueCommit("s2")
          \/ CreateState("s2")
          \/ PlayPull("s2")
          \/ PlayStart("s2")
          \/ SkipMark("s2")
          \/ SkipNext("s2")
    \/ /\ queue = {}
       /\ playback_state = {}
       /\ calls["s2"].op \notin {"enqueue", "play", "skip"}
       /\ \/ \E a \in Albums, id \in MembershipIds : AddAlbum("c1", a, NoSort, id)
          \/ \E a \in Albums : RemoveAlbum("c1", a)
          \/ \E a \in Albums : BeginAddAlbum("s2", "c2", a, NoSort)
          \/ \E a \in Albums : BeginRemoveAlbum("s2", "c2", a)
          \/ AddAlbumRead("s2")
          \/ AddAlbumCommit("s2")
          \/ RemoveAlbumRead("s2")
          \/ RemoveAlbumCommit("s2")

SpecIndependent == Init /\ [][NextIndependent]_vars

(***************************************************************************)
(* Properties.                                                             *)
(***************************************************************************)
NoDuplicates(s) == \A i, j \in DOMAIN s : s[i] = s[j] => i = j

ActiveIds(Q, c) == {q.id : q \in ActiveItems(Q, c)}

MemberAlbums(M, c) == {m.album_id : m \in Members(M, c)}

Positions(S) == {q.position : q \in S}

\* C1: for every collection the display numbers of its memberships are
\* exactly 1..N, N the number of memberships, after any sequence of addAlbum,
\* removeAlbum, setSortOrder and setFullOrder.
C1_DisplayNumbersDense ==
    \A c \in Collections :
        {m.display_number : m \in Members(collection_albums, c)}
            = 1..Cardinality(Members(collection_albums, c))

\* C2: for every collection the positions of its pending and playing queue
\* items are exactly 1..N, N the number of such items, in every state.
C2_QueuePositionsDense ==
    \A c \in Collections :
        /\ Positions(ActiveItems(queue, c)) = 1..Cardinality(ActiveItems(queue, c))
        /\ \A q1, q2 \in ActiveItems(queue, c) : q1.position = q2.position => q1 = q2

\* C3: without markPlaying / markPlayed calls, no collection has two pending
\* or playing queue items with the same track.
C3_NoDuplicateActiveTrack ==
    \A c \in Collections :
        \A q1, q2 \in ActiveItems(queue, c) : q1.track_id = q2.track_id => q1 = q2

\* A duplicate enqueue was turned down while a played row of the same track
\* is still stored beside the pending or playing one.
C3_Witness ==
    /\ last = Call("enqueue", FALSE)
    /\ \E q1, q2 \in queue :
          /\ q1.track_id = q2.track_id
          /\ q1.status = PLAYED
          /\ q2.status \in Active

\* C4: under enqueue, play, pause, stop and skip, at most one queue item of a
\* collection has status playing.
C4_AtMostOnePlaying ==
    \A c \in Collections :
        Cardinality({q \in queue : q.collection_id = c /\ q.status = PLAYING}) <= 1

\* On success every listed id has its 1-based index as position.
ReorderPositions(r, ordered_queue_ids) ==
    \A i \in DOMAIN ordered_queue_ids :
        \A q \in r.queue : q.id = ordered_queue_ids[i] => q.position = i

FullOrderSortOrders(r, c, album_ids) ==
    \A i \in DOMAIN album_ids :
        \A m \in Members(r.collection_albums, c) :
            m.album_id = album_ids[i] => m.sort_order = i - 1

FullOrderDisplayNumbers(r, c, album_ids) ==
    \A i \in DOMAIN album_ids :
        \A m \in Members(r.collection_albums, c) :
            m.album_id = album_ids[i] => m.display_number = i

\* C6: setFullOrder(c, L) succeeds if and only if L has no duplicates and
\* names exactly the member albums of c; on success the membership of L[i]
\* (0-based i) has sort_order i and display_number i+1.
C6_FullOrderExactSet ==
    \A c \in Collections, L \in AlbumLists :
        LET r == set_collection_album_order(collection_albums, c, L)
        IN  /\ r.ok <=> (NoDuplicates(L) /\ Range(L) = MemberAlbums(collection_albums, c))
            /\ r.ok => FullOrderSortOrders(r, c, L) /\ FullOrderDisplayNumbers(r, c, L)

\* C7: a reorder or setFullOrder call that reports failure leaves every
\* stored row as it was.
C7_FailedOrderCallChangesNothing ==
    [][(last'.op \in {"reorder", "setFullOrder"} /\ ~last'.ok)
          => /\ queue' = queue
             /\ collection_albums' = collection_albums
             /\ playback_state' = playback_state]_vars

\* A reorder was turned down on a queue that holds a pending or playing item.
C7_Witness ==
    /\ last = Call("reorder", FALSE)
    /\ ActiveItems(queue, "c1") # {}

\* The pending/playing rows of c left in `after` are numbered 1..M in the
\* order they had in `before`.
RenumberedInOrder(before, after, c) ==
    /\ Positions(ActiveItems(after, c)) = 1..Cardinality(ActiveItems(after, c))
    /\ \A q1, q2 \in ActiveItems(after, c) :
          \A p1, p2 \in ActiveItems(before, c) :
              (p1.id = q1.id /\ p2.id = q2.id /\ p1.position < p2.position)
                  => q1.position < q2.position

\* C8: after remove(q) of an existing pending or playing item, and after
\* clear(c, includePlayed = false), the remaining pending/playing items of the
\* collection have the positions 1..M in their previous relative order.
C8_RemoveRenumbersDense ==
    /\ \A queue_id \in QueueIds :
          \A item \in {q \in queue : q.id = queue_id /\ q.status \in Active} :
              \A r \in remove_from_queue(queue, queue_id) :
                  r.ok /\ RenumberedInOrder(queue, r.queue, item.collection_id)
    /\ \A c \in Collections :
          RenumberedInOrder(queue, clear_queue(queue, c, FALSE).queue, c)

\* C9: the stored display numbers follow the stored sort_order, ties broken
\* by membership id.
C9_DisplayFollowsSortOrder ==
    \A c \in Collections :
        \A m1, m2 \in Members(collection_albums, c) :
            (\/ m1.sort_order < m2.sort_order
             \/ m1.sort_order = m2.sort_order /\ m1.id < m2.id)
                => m1.display_number < m2.display_number

C11_StatusNeverMovesBackward ==
    [][\A q \in queue : \A q2 \in queue' :
          q2.id = q.id =>
              /\ q.status = PLAYING => q2.status # PENDING
              /\ q.status = PLAYED => q2.status = PLAYED]_vars

\* The playback state of c as the calls see it: the stored row, or the row
\* that is created on first access.
StateBefore(c) ==
    IF \E st \in playback_state : st.collection_id = c
    THEN CHOOSE st \in playback_state : st.collection_id = c
    ELSE [collection_id |-> c, current_track_id |-> None, is_playing |-> FALSE,
          current_position_ms |-> 0, volume |-> 70]

StateAfter(r, c) == CHOOSE st \in r.playback_state : st.collection_id = c

\* The other rows of playback_state are as they were.
OtherStatesKept(r, c) ==
    {st \in r.playback_state : st.collection_id # c}
        = {st \in playback_state : st.collection_id # c}

PendingItems(c) == {q \in queue : q.collection_id = c /\ q.status = PENDING}

LowestPending(c) ==
    {q \in PendingItems(c) : \A p \in PendingItems(c) : q.position <= p.position}

\* The playing queue items of c whose track is the current track.
CurrentItems(c) ==
    {q \in queue : /\ q.collection_id = c
                   /\ q.status = PLAYING
                   /\ q.track_id = StateBefore(c).current_track_id}

\* C12: skip(c) when c has no pending queue item leaves the playback state
\* of c with current_track_id = none, current_position_ms = 0 and
\* is_playing = false, whatever it was before.
C12_SkipWithoutPendingClearsState ==
    \A c \in Collections :
        PendingItems(c) = {} =>
            \A r \in skip(queue, playback_state, c) :
                /\ StateAfter(r, c).current_track_id = None
                /\ StateAfter(r, c).current_position_ms = 0
                /\ StateAfter(r, c).is_playing = FALSE

\* A skip found nothing pending: the item that was playing is played, the
\* state is cleared and keeps a volume that was set.
C12_Witness ==
    /\ last = Call("skip", TRUE)
    /\ PendingItems("c1") = {}
    /\ \E q \in queue : q.status = PLAYED
    /\ \E st \in playback_state :
          /\ st.current_track_id = None
          /\ ~st.is_playing
          /\ st.volume # DefaultVolume

\* C13: skip(c) when c has a pending item: the playing item of the current
\* track, if any, becomes played; the pending item with the lowest position
\* becomes playing, its track becomes current_track_id and
\* current_position_ms becomes 0; is_playing keeps its value.
C13_SkipAdvancesToLowestPending ==
    \A c \in Collections :
        PendingItems(c) # {} =>
            \A r \in skip(queue, playback_state, c) :
                \E next \in LowestPending(c) :
                    /\ r.queue = {IF q.id = next.id THEN [q EXCEPT !.status = PLAYING]
                                  ELSE IF q \in CurrentItems(c)
                                  THEN [q EXCEPT !.status = PLAYED]
                                  ELSE q : q \in queue}
                    /\ StateAfter(r, c) =
                           [StateBefore(c) EXCEPT !.current_track_id = next.track_id,
                                                  !.current_position_ms = 0]
                    /\ OtherStatesKept(r, c)

\* A skip while playing moved on: one item is played, the next one is
\* playing and current, is_playing is still true.
C13_Witness ==
    /\ last = Call("skip", TRUE)
    /\ \E st \in playback_state, q1, q2 \in queue :
          /\ st.is_playing
          /\ q1.status = PLAYED
          /\ q2.status = PLAYING
          /\ q2.track_id = st.current_track_id
          /\ q1.position < q2.position

\* C14: play(c) with no current track and a pending item makes the track of
\* the lowest-position pending item current, sets current_position_ms to 0,
\* marks that item playing and sets is_playing; play(c) with a current track
\* only sets is_playing and changes no queue item.
C14_PlayPullsLowestPendingOrResumes ==
    \A c \in Collections :
        /\ (StateBefore(c).current_track_id = None /\ PendingItems(c) # {}) =>
              \A r \in play(queue, playback_state, c) :
                  \E next \in LowestPending(c) :
                      /\ r.queue = {IF q.id = next.id THEN [q EXCEPT !.status = PLAYING]
                                    ELSE q : q \in queue}
                      /\ StateAfter(r, c) =
                             [StateBefore(c) EXCEPT !.current_track_id = next.track_id,
                                                    !.current_position_ms = 0,
                                                    !.is_playing = TRUE]
                      /\ OtherStatesKept(r, c)
        /\ StateBefore(c).current_track_id # None =>
              \A r \in play(queue, playback_state, c) :
                  /\ r.queue = queue
                  /\ StateAfter(r, c) = [StateBefore(c) EXCEPT !.is_playing = TRUE]
                  /\ OtherStatesKept(r, c)

\* A play pulled the first of two pending items.
C14_Witness ==
    /\ last = Call("play", TRUE)
    /\ \E st \in playback_state, q1, q2 \in queue :
          /\ st.is_playing
          /\ st.current_position_ms = 0
          /\ q1.status = PLAYING
          /\ q1.track_id = st.current_track_id
          /\ q2.status = PENDING
          /\ q1.position < q2.position

\* C15: play(c) with no current track and no pending item changes no queue
\* item and leaves the playback state with current_track_id = none, its
\* position, its volume and is_playing = false; at most the default row is
\* created.
C15_PlayOnEmptyQueueIsNoOp ==
    \A c \in Collections :
        (StateBefore(c).current_track_id = None /\ PendingItems(c) = {}) =>
            \A r \in play(queue, playback_state, c) :
                /\ r.queue = queue
                /\ r.playback_state = playback_state \cup {StateBefore(c)}
                /\ StateAfter(r, c).current_track_id = None
                /\ StateAfter(r, c).is_playing = FALSE

\* A play found no current track and nothing pending: the state is stopped
\* and keeps the position that was stored.
C15_Witness ==
    /\ last = Call("play", TRUE)
    /\ PendingItems("c1") = {}
    /\ \E st \in playback_state :
          /\ st.current_track_id = None
          /\ ~st.is_playing
          /\ st.current_position_ms # 0

TrackOf(track_id) == CHOOSE t \in tracks : t.id = track_id

\* Track a comes before track b in the (disc_number, track_number) order.
ComesBefore(a, b) ==
    \/ a.disc_number < b.disc_number
    \/ a.disc_number = b.disc_number /\ a.track_number < b.track_number

\* The next track is the immediate successor of the current track of c in
\* the track list of their common album.
ConsecutiveAlbumPlay(c, next_track_id) ==
    /\ StateBefore(c).current_track_id # None
    /\ LET current == TrackOf(StateBefore(c).current_track_id)
           next == TrackOf(next_track_id)
       IN  /\ current.album_id = next.album_id
           /\ ComesBefore(current, next)
           /\ ~\E t \in tracks : /\ t.album_id = current.album_id
                                 /\ ComesBefore(current, t)
                                 /\ ComesBefore(t, next)

\* C16: getNextTransition(c), when a pending item exists, returns
\* applyCrossfade = false if and only if there is a current track and the
\* next track is its immediate successor in the (disc_number, track_number)
\* order of their common album; in every other case it returns
\* applyCrossfade = true.
C16_CrossfadeOffOnlyForConsecutiveAlbumPlay ==
    \A c \in Collections :
        PendingItems(c) # {} =>
            \A r \in get_next_transition(queue, playback_state, tracks, c) :
                /\ ~r.raised
                /\ \E next \in LowestPending(c) : r.next_track_id = next.track_id
                /\ r.apply_crossfade = ~ConsecutiveAlbumPlay(c, r.next_track_id)

\* At least one entry carries start_slot and at least one does not.
MixedRanges(sections) ==
    /\ \E i \in DOMAIN sections : sections[i].start_slot # NoSlot
    /\ \E i \in DOMAIN sections : sections[i].start_slot = NoSlot

\* Name and color are not blank, the orders differ.
WellFormed(sections) ==
    /\ \A i \in DOMAIN sections :
          /\ sections[i].name \notin {"", " ", "  "}
          /\ sections[i].color \notin {"", " ", "  "}
    /\ \A i, j \in DOMAIN sections : sections[i].order = sections[j].order => i = j

\* The index of the k-th section in the order of `order` (orders differ).
ByOrder(sections, k) ==
    CHOOSE i \in DOMAIN sections :
        Cardinality({j \in DOMAIN sections : sections[j].order < sections[i].order}) = k - 1

\* The ranges are contiguous from slot 1: with the sections taken by order,
\* the first starts at 1, every non-last one has an end_slot >= start_slot,
\* every later one starts at the previous end_slot + 1.
ContiguousFromOne(sections) ==
    LET sec(k) == sections[ByOrder(sections, k)]
        n == Len(sections)
    IN  /\ sec(1).start_slot = 1
        /\ \A k \in 1..(n - 1) : /\ sec(k).end_slot # NoSlot
                                  /\ sec(k).end_slot >= sec(k).start_slot
        /\ \A k \in 2..n : /\ sec(k - 1).end_slot # NoSlot
                            /\ sec(k).start_slot = sec(k - 1).end_slot + 1

\* C17: setSections(c, enabled = true, S) rejects every list S in which one
\* entry carries start_slot and another does not, and stores nothing.
C17_MixedRangesRejected ==
    [][(/\ last'.op = "setSections"
        /\ \E body \in request : body.sections_enabled /\ MixedRanges(body.sections))
          => (~last'.ok /\ collections' = collections)]_vars

\* C18: for a list S of MinSections..MaxSections well-formed sections that
\* all carry start_slot, setSections(c, true, S) succeeds if and only if the
\* ranges are contiguous from slot 1 (the end_slot of the last section may be
\* absent); a gap, an overlap or a non-last section without end_slot is
\* rejected.
C18_ContiguousRangesExactly ==
    \A body \in request : \A col \in collections :
        (/\ body.sections_enabled
         /\ Len(body.sections) \in MinSections..MaxSections
         /\ WellFormed(body.sections)
         /\ \A i \in DOMAIN body.sections : body.sections[i].start_slot # NoSlot)
            => (update_collection_sections(collections, col.id, TRUE, body.sections).ret = "ok"
                    <=> ContiguousFromOne(body.sections))

\* C19: setSections(c, true, S) fails when S has fewer than MinSections or
\* more than MaxSections entries, when two entries share an order or when a
\* name or color is blank; a failing call leaves every collection row as it
\* was; setSections(c, false) stores no sections and sections_enabled = false.
C19_InvalidSectionsFailAndChangeNothing ==
    \A body \in request : \A collection_id \in SectionTargets :
        LET r == update_collection_sections(collections, collection_id,
                                            body.sections_enabled, body.sections)
        IN  /\ (/\ body.sections_enabled
                /\ \/ Len(body.sections) < 3
                   \/ Len(body.sections) > 10
                   \/ ~WellFormed(body.sections))
                  => r.ret # "ok"
            /\ r.ret # "ok" => r.collections = collections
            /\ (~body.sections_enabled /\ \E col \in collections : col.id = collection_id)
                  => /\ r.ret = "ok"
                     /\ r.collections =
                            {IF col.id = collection_id
                             THEN [col EXCEPT !.sections = <<>>, !.sections_enabled = FALSE]
                             ELSE col : col \in collections}

\* A request with more than MaxSections sections was turned down and the
\* collection still has the sections it had.
C19_Witness ==
    /\ last = Call("setSections", FALSE)
    /\ \E body \in request : body.sections_enabled /\ Len(body.sections) > 10
    /\ \E col \in collections : col.sections_enabled /\ col.sections = StoredSections

\* C20: in every state the virtual "all" collection exists, has no sections
\* stored and has sections_enabled = false.
C20_AllCollectionNeverHoldsSections ==
    /\ \E col \in collections : col.id = AllCollectionId
    /\ \A col \in collections :
          col.id = AllCollectionId => (col.sections = <<>> /\ ~col.sections_enabled)

\* No call is in progress in any session.
AllReturned == \A s \in Sessions : calls[s] = Idle

\* What a reader of collection c finds between the commits of a skip: the
\* state still names a track whose item is already played, and no item of
\* the collection is playing.
SkipHalfDone(c) ==
    /\ get_playback_state(playback_state, c) # {}
    /\ StateOf(playback_state, c).current_track_id # None
    /\ \E q \in queue : /\ q.collection_id = c
                        /\ q.status = PLAYED
                        /\ q.track_id = StateOf(playback_state, c).current_track_id
    /\ \A q \in queue : q.collection_id = c => q.status # PLAYING

\* Between the commits of a play: the item pulled is playing and named by
\* the state, whose is_playing is still false.
PlayHalfDone(c) ==
    /\ get_playback_state(playback_state, c) # {}
    /\ ~StateOf(playback_state, c).is_playing
    /\ \E q \in queue : /\ q.collection_id = c
                        /\ q.status = PLAYING
                        /\ q.track_id = StateOf(playback_state, c).current_track_id

\* C21: a call commits its writes in one step, so that the tables never
\* hold an intermediate state of a call in progress: not the half-done skip
\* (SkipHalfDone) while a skip is past its first statement, not the
\* half-done play (PlayHalfDone) while a play is about to set is_playing,
\* and not a part of the tracks of an enqueueMany that has more to insert.
C21_CallsCommitInOneStep ==
    \A s \in Sessions :
        /\ InCall(s, "skip", "next") => ~SkipHalfDone(calls[s].c)
        /\ InCall(s, "play", "start") => ~PlayHalfDone(calls[s].c)
        /\ InCall(s, "enqueue", "commit") => calls[s].count = 0

\* C22: once the enqueue calls of the two sessions have returned, whatever
\* the order their statements ran in, no collection has two pending or
\* playing items with the same track.
C22_ConcurrentEnqueueSameTrack ==
    AllReturned =>
        \A c \in Collections :
            \A q1, q2 \in ActiveItems(queue, c) :
                q1.id # q2.id => q1.track_id # q2.track_id

\* C23: once the enqueue calls of the two sessions have returned, whatever
\* the order their statements ran in, pending and playing items of a
\* collection that hold different tracks have different positions.
C23_ConcurrentEnqueuePositions ==
    AllReturned =>
        \A c \in Collections :
            \A q1, q2 \in ActiveItems(queue, c) :
                q1.track_id # q2.track_id => q1.position # q2.position

\* C24: once the addAlbum and removeAlbum calls of the two sessions have
\* returned, whatever the order their statements ran in, the display
\* numbers of every collection are exactly 1..N, N the number of its
\* memberships, each number held once.
C24_ConcurrentEditsKeepNumbersDense ==
    AllReturned =>
        \A c \in Collections :
            /\ {m.display_number : m \in Members(collection_albums, c)}
                   = 1..Cardinality(Members(collection_albums, c))
            /\ \A m1, m2 \in Members(collection_albums, c) :
                   m1.id # m2.id => m1.display_number # m2.display_number

\* The memberships, the queue items and the playback state of collection c
\* in the tables M, Q and P.
RowsOf(M, Q, P, c) ==
    <<{m \in M : m.collection_id = c},
      {q \in Q : q.collection_id = c},
      {p \in P : p.collection_id = c}>>

\* The tables M, Q and P hold the rows of every collection other than c as
\* they are stored now.
OthersKept(M, Q, P, c) ==
    \A b \in Collections \ {c} :
        RowsOf(M, Q, P, b) = RowsOf(collection_albums, queue, playback_state, b)

\* Every queue call made for c keeps the rows of the other collections,
\* whatever track it names and whatever stored items, of any collection, the
\* list given to reorder names.
QueueCallsKeepOthers(c) ==
    LET Kept(Q) == OthersKept(collection_albums, Q, playback_state, c)
    IN  /\ \A t \in Tracks : Kept(add_to_queue(queue, c, t).queue)
        /\ \A track_ids \in TrackLists : Kept(add_album_to_queue(queue, c, track_ids).queue)
        /\ \A q \in queue :
               q.collection_id = c =>
                   \A r \in remove_from_queue(queue, q.id) : Kept(r.queue)
        /\ \A ids \in SeqsUpTo({q.id : q \in queue}, MaxListLen) :
               Kept(reorder_queue(queue, c, ids).queue)
        /\ \A clear_played \in BOOLEAN : Kept(clear_queue(queue, c, clear_played).queue)

\* Every playback call made for c keeps the rows of the other collections.
PlaybackCallsKeepOthers(c) ==
    LET Kept(P) == OthersKept(collection_albums, queue, P, c)
    IN  /\ \A r \in play(queue, playback_state, c) \cup skip(queue, playback_state, c) :
               OthersKept(collection_albums, r.queue, r.playback_state, c)
        /\ Kept(pause(playback_state, c))
        /\ Kept(stop(playback_state, c))
        /\ \A position_ms \in PositionInputs :
               Kept(update_position(playback_state, c, position_ms))
        /\ \A volume \in VolumeInputs : Kept(set_volume(playback_state, c, volume))

\* Every ordering call made for c keeps the rows of the other collections,
\* whatever album it names and whatever albums stored in a collection the
\* list given to setFullOrder names.
OrderCallsKeepOthers(c) ==
    LET Kept(M) == OthersKept(M, queue, playback_state, c)
        new_id == SetMax({m.id : m \in collection_albums} \cup {0}) + 1
    IN  /\ \A a \in AlbumInputs, sort_order \in SortOrders \cup {NoSort} :
               Kept(add_album_to_collection(collection_albums, c, a, sort_order,
                                            new_id).collection_albums)
        /\ \A a \in AlbumInputs :
               Kept(remove_album_from_collection(collection_albums, c, a).collection_albums)
        /\ \A a \in AlbumInputs, sort_order \in SortOrders :
               Kept(update_album_sort_order(collection_albums, c, a,
                                            sort_order).collection_albums)
        /\ \A album_ids \in SeqsUpTo({m.album_id : m \in collection_albums},
                                      MaxAlbumListLen) :
               Kept(set_collection_album_order(collection_albums, c,
                                               album_ids).collection_albums)

\* The collection the step of session s is made for.
StepFor(s) == IF calls[s] = Idle THEN calls'[s].c ELSE calls[s].c

\* C25: no call made for one collection changes a membership, a queue item
\* or a playback-state field of another collection.  In every state, also
\* between two commits of a call of the other collection, each ordering,
\* queue and playback call keeps the rows of the other collections for
\* every input, and so does each statement of a call run step by step.
C25_OtherCollectionsUntouched ==
    /\ [](\A c \in Collections :
              /\ QueueCallsKeepOthers(c)
              /\ PlaybackCallsKeepOthers(c)
              /\ OrderCallsKeepOthers(c))
    /\ [][\A s \in Sessions :
              calls'[s] # calls[s] =>
                  OthersKept(collection_albums', queue', playback_state', StepFor(s))]_vars

\* A queue item of "c1" was removed while "c1" has an item left, and "c2"
\* holds a playing item and its playback state.
C25_Witness ==
    /\ last = Call("remove", TRUE)
    /\ \E q \in queue : q.collection_id = "c1" /\ q.status \in Active
    /\ \E q \in queue : q.collection_id = "c2" /\ q.status = PLAYING
    /\ get_playback_state(playback_state, "c2") # {}

C27_RemovePlayedKeepsPositions ==
    \A played \in queue :
        played.status = PLAYED =>
            \A r \in remove_from_queue(queue, played.id) :
                \A q \in ActiveItems(queue, played.collection_id) :
                    \E kept \in r.queue : kept.id = q.id /\ kept.position = q.position

\* C28: the listing of the "all" collection and enqueue-by-album-number use
\* one enumeration: for every album listed with display_number k, whatever
\* albums are archived, the album number k is resolved to by the enqueue
\* request is that album.
C28_AllNumbersAgree ==
    \A k \in DOMAIN all_collection_albums(albums) :
        add_to_queue_all(albums, tracks, queue, all_collection_albums(albums)[k].display_number,
                         0).album
            = all_collection_albums(albums)[k].id

\* The volume setVolume is to store for the volume asked for.
Clamped(volume) == IF volume < 0 THEN 0 ELSE IF volume > 100 THEN 100 ELSE volume

\* C29: setVolume(c, v) leaves exactly one state of c, with volume
\* max(0, min(100, v)), whether c had a state or not; a state created by any
\* other call has volume 70; every stored volume is within 0..100.
C29_VolumeClamped ==
    /\ [](\A st \in playback_state : st.volume \in 0..100)
    /\ [](\A c \in Collections, volume \in VolumeInputs :
              LET P == set_volume(playback_state, c, volume)
              IN  /\ Cardinality({st \in P : st.collection_id = c}) = 1
                  /\ \A st \in P : st.collection_id = c => st.volume = Clamped(volume))
    /\ [][\A st \in playback_state' :
              (\A old \in playback_state : old.collection_id # st.collection_id) =>
                  IF last'.op = "setVolume"
                  THEN st.volume \in {Clamped(volume) : volume \in VolumeInputs}
                  ELSE st.volume = 70]_vars

\* setVolume has just stored the upper bound of the range in the state of a
\* collection that is playing.
C29_Witness ==
    /\ last.op = "setVolume"
    /\ \E st \in playback_state : st.volume = 100 /\ st.is_playing

\* The membership of album a in collection c is stored.
IsMember(c, a) == \E m \in collection_albums : m.collection_id = c /\ m.album_id = a

\* C30: addAlbum(c, a, s) for a stored membership (c, a) answers with that
\* membership and leaves the table of memberships as it is, whatever s is;
\* a second addAlbum(c, a, s2) after a first addAlbum(c, a, s1) changes
\* nothing.
C30_AddAlbumIdempotent ==
    /\ [](\A c \in Collections, a \in AlbumInputs, s1, s2 \in SortOrders \cup {NoSort} :
              LET new_id == SetMax({m.id : m \in collection_albums} \cup {0}) + 1
                  once == add_album_to_collection(collection_albums, c, a, s1, new_id)
                  twice == add_album_to_collection(once.collection_albums, c, a, s2,
                                                   new_id + 1)
              IN  /\ IsMember(c, a) =>
                         once.ret = "existing" /\ once.collection_albums = collection_albums
                  /\ twice.collection_albums = once.collection_albums
                  /\ once.ret # None => twice.ret = "existing")
    /\ [][\A c \in Collections, a \in AlbumInputs :
              IsMember(c, a) /\ last'.op = "addAlbum" /\ IsMember(c, a)' /\
              (\A m \in collection_albums' : m \in collection_albums \/
                                             (m.collection_id = c /\ m.album_id = a)) =>
                  collection_albums' = collection_albums]_vars

\* addAlbum has just been answered for a collection whose memberships carry
\* sort orders other than their display numbers.
C30_Witness ==
    /\ last = [op |-> "addAlbum", ok |-> TRUE]
    /\ \E m \in collection_albums : m.sort_order # m.display_number
    /\ Cardinality(collection_albums) >= 2

\* The place of the first occurrence of track t in the list L.
FirstIndexOf(L, t) == CHOOSE i \in DOMAIN L : L[i] = t /\ \A j \in 1..(i - 1) : L[j] # t

\* C31: enqueueMany(c, L) keeps the stored rows, returns the number of rows
\* it inserted, inserts one pending row of c for every track of L that was
\* not pending or playing in c (one row for a track named several times) and
\* none for the others, and the rows inserted have positions above those of
\* the pending and playing rows of c, increasing in the order of L.
C31_EnqueueManyCount ==
    \A c \in Collections, L \in TrackLists :
        LET r == add_album_to_queue(queue, c, L)
            inserted == r.queue \ queue
            was_active == {q.track_id :
                              q \in {x \in queue : x.collection_id = c /\
                                                   x.status \in {PENDING, PLAYING}}}
        IN  /\ queue \subseteq r.queue
            /\ r.count = Cardinality(inserted)
            /\ \A q \in inserted : q.collection_id = c /\ q.status = PENDING
            /\ \A t \in Tracks :
                   Cardinality({q \in inserted : q.track_id = t})
                       = IF (\E i \in DOMAIN L : L[i] = t) /\ t \notin was_active
                         THEN 1 ELSE 0
            /\ \A q \in inserted, old \in queue :
                   old.collection_id = c /\ old.status \in {PENDING, PLAYING} =>
                       old.position < q.position
            /\ \A q1, q2 \in inserted :
                   FirstIndexOf(L, q1.track_id) < FirstIndexOf(L, q2.track_id) =>
                       q1.position < q2.position

\* enqueueMany has just returned with one track playing and the other
\* pending behind it.
C31_Witness ==
    /\ last.op = "enqueueMany"
    /\ \E q1, q2 \in queue :
          /\ q1.status = PLAYING /\ q2.status = PENDING
          /\ q1.collection_id = q2.collection_id
          /\ q1.position < q2.position

\* The orders that ORDER BY sort_order, id allows for the rows S.
SortOrderListings(S) ==
    {f \in Listings(S) :
        \A i, j \in DOMAIN f : i < j =>
            \/ f[i].sort_order < f[j].sort_order
            \/ f[i].sort_order = f[j].sort_order /\ f[i].id < f[j].id}

\* The memberships after recomputeDisplayNumbers(c) has run alone on M.
Recomputed(M, c) == ApplyDisplayNumbers(M, recalculate_display_numbers(M, c))

\* recomputeDisplayNumbers(c) has one possible result on the stored
\* memberships and a second run changes nothing.
RecomputeIdempotent ==
    \A c \in Collections :
        /\ Cardinality(SortOrderListings({m \in collection_albums : m.collection_id = c})) = 1
        /\ Recomputed(Recomputed(collection_albums, c), c) = Recomputed(collection_albums, c)

\* An ordering call made a second time with the same arguments, right after
\* it was completed, leaves the memberships the first call stored.
RetryKeepsResult ==
    \A c \in Collections :
        /\ \A a \in AlbumInputs, s \in SortOrders :
               LET once == update_album_sort_order(collection_albums, c, a, s)
               IN  update_album_sort_order(once.collection_albums, c, a, s).collection_albums
                       = once.collection_albums
        /\ \A a \in AlbumInputs :
               LET once == remove_album_from_collection(collection_albums, c, a)
               IN  remove_album_from_collection(once.collection_albums, c, a).collection_albums
                       = once.collection_albums
        /\ \A album_ids \in AlbumLists :
               LET once == set_collection_album_order(collection_albums, c, album_ids)
               IN  set_collection_album_order(once.collection_albums, c,
                                              album_ids).collection_albums
                       = once.collection_albums

\* C32: recomputeDisplayNumbers(c) is deterministic and idempotent on the
\* stored memberships, and an ordering call that is retried after it was
\* completed does not alter the result.
C32_RecomputeIdempotentRetrySafe == RecomputeIdempotent /\ RetryKeepsResult

\* C33: addAlbum(c, a) without a sort order, for an album a that is not a
\* member of c, stores the new membership with display_number = the new
\* number of memberships of c, and any two other memberships of c keep
\* their relative order of display numbers.
C33_AddAlbumAppends ==
    \A c \in Collections, a \in Albums,
       new_id \in 1..(Cardinality(collection_albums) + 1) :
        LET before == {m \in collection_albums : m.collection_id = c}
            r == add_album_to_collection(collection_albums, c, a, NoSort, new_id)
            after == {m \in r.collection_albums : m.collection_id = c}
        IN  (/\ \A m \in collection_albums : m.id # new_id
             /\ \A m \in before : m.album_id # a) =>
                /\ \E m \in after :
                      m.album_id = a /\ m.display_number = Cardinality(after)
                /\ \A m1, m2 \in before, n1, n2 \in after :
                      (n1.id = m1.id /\ n2.id = m2.id /\
                       m1.display_number < m2.display_number) =>
                          n1.display_number < n2.display_number

\* The rows of Q that are pending in collection c.
PendingOf(Q, c) == {q \in Q : q.collection_id = c /\ q.status = PENDING}

\* C34: without reorder the tracks become current in the order they were
\* enqueued.  In every step: a row that is inserted gets a position above
\* the positions of the rows that were pending or playing in its collection,
\* a row that goes from pending to playing was the one pending row of
\* smallest position, and the rows that stay pending keep their relative
\* order.
C34_FirstInFirstOut ==
    [][\A c \in Collections :
          /\ \A new \in queue' :
                 (new.collection_id = c /\ \A q \in queue : q.id # new.id) =>
                     \A q \in queue :
                         q.collection_id = c /\ q.status \in {PENDING, PLAYING} =>
                             q.position < new.position
          /\ \A q \in PendingOf(queue, c) :
                 (\E p \in queue' : p.id = q.id /\ p.status = PLAYING) =>
                     \A other \in PendingOf(queue, c) \ {q} : q.position < other.position
          /\ \A q1, q2 \in PendingOf(queue, c), p1, p2 \in PendingOf(queue', c) :
                 (p1.id = q1.id /\ p2.id = q2.id /\ q1.position < q2.position) =>
                     p1.position < p2.position]_vars

\* play or skip has just pulled a track while another one is pending behind
\* it.
C34_Witness ==
    /\ last.op \in {"play", "skip"}
    /\ \E q1, q2 \in queue :
          /\ q1.collection_id = q2.collection_id
          /\ q1.status = PLAYING /\ q2.status = PENDING
          /\ q1.position < q2.position
    /\ \E st \in playback_state : st.current_track_id # None

\* C35: a playback state that is playing has a current track.
C35_PlayingHasTrack ==
    \A st \in playback_state : st.is_playing => st.current_track_id # None

\* The state is playing after a queue call removed rows, with a position and
\* a volume that were set.
C35_Witness ==
    /\ last.op \in {"remove", "clear", "clearAll"}
    /\ \E st \in playback_state :
          /\ st.is_playing
          /\ st.current_position_ms > 0
          /\ st.volume # 70

\* No row of collection c is pending or playing and its state has no
\* current track and is not playing.
Drained(c) ==
    /\ \A q \in queue : q.collection_id = c => q.status = PLAYED
    /\ \A st \in playback_state :
           st.collection_id = c => st.current_track_id = None /\ ~st.is_playing

\* One more skip(c) changes nothing.
SkipChangesNothing(c) ==
    skip(queue, playback_state, c) = {[queue |-> queue, playback_state |-> playback_state]}

\* C36: when skip is called again and again on a collection after any
\* sequence of enqueue, play, pause and stop, every pending or playing row
\* becomes played and the state ends with no current track and not playing:
\* once the skips change nothing any more, the collection is drained.
C36_SkipDrainsQueue ==
    \A c \in Driven : last.op = "skip" /\ SkipChangesNothing(c) => Drained(c)

\* The same claim as a property of the behaviours in which skip is invoked
\* again and again.
C36_EventuallyDrained == <>[](\A c \in Driven : Drained(c))

\* C37: remove and clear leave every playback state as it is: the current
\* track, is_playing, the position and the volume are those before the call,
\* also when the row removed is the one of the current track.
C37_RemoveClearKeepPlayback ==
    [][last'.op \in {"remove", "clear", "clearAll"} =>
          /\ \A st \in playback_state : st \in playback_state'
          /\ \A st \in playback_state' : st \in playback_state]_vars

\* remove has just deleted the row of the current track: the state is
\* playing a track no pending or playing row holds, at a position and a
\* volume that were set.
C37_Witness ==
    /\ last = [op |-> "remove", ok |-> TRUE]
    /\ \E st \in playback_state :
          /\ st.current_track_id # None
          /\ st.is_playing
          /\ st.current_position_ms > 0
          /\ st.volume = 100
          /\ \A q \in queue :
                 q.collection_id = st.collection_id => q.track_id # st.current_track_id

====
